---- MODULE Spec2Model ----
(***************************************************************************)
(* Model of seantis/roots: the layer cache (pkg/image/store.go), the       *)
(* inter-process lock (pkg/image/lock.go), the layer extractor             *)
(* (pkg/image/untar.go) and the pull/purge commands (roots.go).            *)
(*                                                                         *)
(* Names of tar entries are sequences of one-character strings, so that    *)
(* the string operations of the code (regexp match, HasPrefix, slicing,    *)
(* filepath.Join/Dir/Base) are computed rather than assumed.  A path of    *)
(* the filesystem is the sequence of its components, the root being <<>>.  *)
(***************************************************************************)
EXTENDS Integers, Sequences, FiniteSets, TLC

\* ------------------------------------------------------------------ bounds
MaxLayers == 2          \* longest manifest a pull is given
MaxFollow == 3          \* symbolic links followed while resolving one path
MaxEntries == 2         \* longest tar archive drawn in the extractor's own specification

\* ------------------------------------------------------------ strings, paths
Last(s) == s[Len(s)]
Front(s) == SubSeq(s, 1, Len(s) - 1)
IsPrefix(p, q) == Len(p) <= Len(q) /\ SubSeq(q, 1, Len(p)) = p

\* strings.HasPrefix / strings.HasSuffix / strings.Contains on character sequences
HasPrefix(s, pre) == IsPrefix(pre, s)
HasSuffix(s, suf) == Len(suf) <= Len(s) /\ SubSeq(s, Len(s) - Len(suf) + 1, Len(s)) = suf
ContainsSlash(s) == \E i \in 1..Len(s) : s[i] = "/"

\* regexp `/?\.\./` : some ".." directly followed by "/"
unsafepath(s) == \E i \in 1..(Len(s) - 2) : s[i] = "." /\ s[i+1] = "." /\ s[i+2] = "/"

RECURSIVE SplitFrom(_, _, _)
SplitFrom(s, i, cur) ==
    IF i > Len(s) THEN <<cur>>
    ELSE IF s[i] = "/" THEN <<cur>> \o SplitFrom(s, i + 1, <<>>)
    ELSE SplitFrom(s, i + 1, Append(cur, s[i]))

\* the components of a slash-separated string (empty ones included)
Split(s) == SplitFrom(s, 1, <<>>)

DotDot == <<".", ".">>
Dot == <<".">>

\* filepath.Join(base, s) for a clean absolute base: Clean(base + "/" + s)
RECURSIVE CleanOnto(_, _)
CleanOnto(base, comps) ==
    IF comps = <<>> THEN base
    ELSE LET c == Head(comps) IN
         IF c = <<>> \/ c = Dot THEN CleanOnto(base, Tail(comps))
         ELSE IF c = DotDot
              THEN CleanOnto(IF base = <<>> THEN <<>> ELSE Front(base), Tail(comps))
              ELSE CleanOnto(Append(base, c), Tail(comps))

Join(base, s) == CleanOnto(base, Split(s))

RECURSIVE TrimSlashes(_)
TrimSlashes(s) == IF s # <<>> /\ Last(s) = "/" THEN TrimSlashes(Front(s)) ELSE s

RECURSIVE LastSlash(_, _)
LastSlash(s, i) == IF i = 0 THEN 0 ELSE IF s[i] = "/" THEN i ELSE LastSlash(s, i - 1)

\* filepath.Base: the last element, trailing slashes removed; "." for the empty string
Base(s) ==
    IF s = <<>> THEN Dot
    ELSE LET t == TrimSlashes(s) IN
         IF t = <<>> THEN <<"/">>
         ELSE SubSeq(t, LastSlash(t, Len(t)) + 1, Len(t))

\* filepath.Dir: all but the last element (cleaned by the Join that consumes it)
Dir(s) == SubSeq(s, 1, LastSlash(s, Len(s)))

WhPrefix == <<".", "w", "h", ".">>
OpqName == <<".", "w", "h", ".", ".", "w", "h", ".", ".", "o", "p", "q">>

isWhiteoutPath(p) == HasPrefix(Base(p), WhPrefix)

\* ---------------------------------------------------------------- setting
\* The setting of a run: who calls, with which destinations and caches,
\* what the registry answers, whether the processes are root, whether calls
\* of the system fail, whether lastOk is recorded.  It never changes.
VARIABLE env

\* ------------------------------------------------------------- filesystem
\* A filesystem is a function from the existing paths to their nodes.
DirNode(m) == [k |-> "dir", m |-> m, c |-> <<>>]
FileNode(m, c) == [k |-> "file", m |-> m, c |-> c]
SymNode(target) == [k |-> "sym", m |-> 777, c |-> target]

Exists(fs, p) == p \in DOMAIN fs
IsDirAt(fs, p) == Exists(fs, p) /\ fs[p].k = "dir"
Children(fs, p) == {q \in DOMAIN fs : Len(q) = Len(p) + 1 /\ IsPrefix(p, q)}
Subtree(fs, p) == {q \in DOMAIN fs : IsPrefix(p, q)}
Without(fs, ps) == [q \in DOMAIN fs \ ps |-> fs[q]]
With(fs, p, node) == [q \in DOMAIN fs \cup {p} |-> IF q = p THEN node ELSE fs[q]]

\* Path resolution as the kernel does it: component by component from cur,
\* following symbolic links (the last one only when follow is set).
\* Result: err ("" when resolved), path (the physical path), exists.
RECURSIVE Walk(_, _, _, _, _)
Walk(fs, cur, rest, follow, fuel) ==
    IF rest = <<>> THEN [err |-> "", path |-> cur, exists |-> TRUE]
    ELSE IF ~IsDirAt(fs, cur) THEN [err |-> "ENOTDIR", path |-> cur, exists |-> FALSE]
    ELSE LET c == Head(rest)
             more == Tail(rest)
             child == Append(cur, c)
         IN  IF c = <<>> \/ c = Dot THEN Walk(fs, cur, more, follow, fuel)
             ELSE IF c = DotDot
                  THEN Walk(fs, IF cur = <<>> THEN <<>> ELSE Front(cur), more, follow, fuel)
             ELSE IF ~Exists(fs, child)
                  THEN IF more = <<>>
                       THEN [err |-> "", path |-> child, exists |-> FALSE]
                       ELSE [err |-> "ENOENT", path |-> child, exists |-> FALSE]
             ELSE IF fs[child].k = "sym" /\ (more # <<>> \/ follow)
                  THEN IF fuel = 0
                       THEN [err |-> "ELOOP", path |-> child, exists |-> FALSE]
                       ELSE LET t == fs[child].c IN
                            IF t # <<>> /\ t[1] = "/"
                            THEN Walk(fs, <<>>, Split(t) \o more, follow, fuel - 1)
                            ELSE Walk(fs, cur, Split(t) \o more, follow, fuel - 1)
             ELSE Walk(fs, child, more, follow, fuel)

Resolve(fs, p, follow) == Walk(fs, <<>>, p, follow, MaxFollow)

\* os.Stat / os.Lstat: ok, and the node when ok
StatAt(fs, p, follow) ==
    LET r == Resolve(fs, p, follow) IN
    IF r.err = "" /\ r.exists
    THEN [ok |-> TRUE, notexist |-> FALSE, node |-> fs[r.path], path |-> r.path]
    ELSE [ok |-> FALSE, notexist |-> r.err \in {"", "ENOENT"}, node |-> DirNode(0), path |-> r.path]

Stat(fs, p) == StatAt(fs, p, TRUE)
Lstat(fs, p) == StatAt(fs, p, FALSE)

\* The result of a filesystem call: the new filesystem, whether it failed,
\* and the physical paths it created, wrote or removed.
Done(fs, hit) == [fs |-> fs, err |-> FALSE, hit |-> hit]
Failed(fs) == [fs |-> fs, err |-> TRUE, hit |-> {}]

\* Permissions, for a process that is not root: an entry is created in or
\* removed from a directory only if the owner may write the directory, and a
\* file is opened for writing only if the owner may write it.  Modes are
\* written with the octal digits as decimal ones.
Writable(m) == ((m \div 100) \div 2) % 2 = 1
Denied(fs, q) ==
    ~env.root /\ q # <<>> /\ Front(q) \in DOMAIN fs /\ ~Writable(fs[Front(q)].m)

\* os.Remove: unlink a non-directory, rmdir an empty directory
Remove(fs, p) ==
    LET r == Resolve(fs, p, FALSE) IN
    IF r.err # "" \/ ~r.exists \/ r.path = <<>> \/ Denied(fs, r.path) THEN Failed(fs)
    ELSE IF fs[r.path].k = "dir" /\ Children(fs, r.path) # {} THEN Failed(fs)
    ELSE Done(Without(fs, {r.path}), {r.path})

\* os.RemoveAll: remove the path and everything below it; nothing to do if absent
RemoveAll(fs, p) ==
    LET r == Resolve(fs, p, FALSE) IN
    IF r.err \in {"ENOENT", "ENOTDIR"} THEN Done(fs, {})
    ELSE IF r.err # "" THEN Failed(fs)
    ELSE IF ~r.exists THEN Done(fs, {})
    ELSE IF r.path = <<>> THEN Failed(fs)
    ELSE IF \E q \in Subtree(fs, r.path) : Denied(fs, q) THEN Failed(fs)
    ELSE Done(Without(fs, Subtree(fs, r.path)), {r.path})

\* os.Mkdir
Mkdir(fs, p, m) ==
    LET r == Resolve(fs, p, FALSE) IN
    IF r.err # "" \/ r.exists \/ Denied(fs, r.path) THEN Failed(fs)
    ELSE Done(With(fs, r.path, DirNode(m)), {r.path})

\* os.MkdirAll: nothing to do for a directory, an error for another file,
\* otherwise create the parent and then the directory
RECURSIVE MkdirAll(_, _, _)
MkdirAll(fs, p, m) ==
    LET s == Stat(fs, p) IN
    IF s.ok THEN (IF s.node.k = "dir" THEN Done(fs, {}) ELSE Failed(fs))
    ELSE IF p = <<>> THEN Failed(fs)
    ELSE LET up == MkdirAll(fs, Front(p), m) IN
         IF up.err THEN Failed(fs)
         ELSE LET mk == Mkdir(up.fs, p, m) IN
              IF mk.err
              THEN (IF Lstat(up.fs, p).ok /\ Lstat(up.fs, p).node.k = "dir"
                    THEN Done(up.fs, up.hit) ELSE [fs |-> up.fs, err |-> TRUE, hit |-> up.hit])
              ELSE Done(mk.fs, up.hit \cup mk.hit)

\* os.OpenFile(O_CREATE|O_RDWR, mode) followed by io.Copy and Close
WriteFile(fs, p, m, content) ==
    LET r == Resolve(fs, p, TRUE) IN
    IF r.err # "" THEN Failed(fs)
    ELSE IF r.exists
         THEN (IF fs[r.path].k = "dir" \/ (~env.root /\ ~Writable(fs[r.path].m))
               THEN Failed(fs)
               ELSE Done(With(fs, r.path, FileNode(fs[r.path].m, content)), {r.path}))
         ELSE IF Denied(fs, r.path) THEN Failed(fs)
         ELSE Done(With(fs, r.path, FileNode(m, content)), {r.path})

\* filemutex.New: open(O_CREAT|O_RDONLY, 0666), the file is created when it
\* is missing and left as it is otherwise
OpenCreate(fs, p) ==
    LET r == Resolve(fs, p, TRUE) IN
    IF r.err # "" THEN Failed(fs)
    ELSE IF r.exists
         THEN (IF fs[r.path].k = "dir" THEN Failed(fs) ELSE Done(fs, {}))
         ELSE IF Denied(fs, r.path) THEN Failed(fs)
         ELSE Done(With(fs, r.path, FileNode(644, "")), {r.path})

\* os.Link(old, new): neither path follows a final symbolic link
Link(fs, old, new) ==
    LET o == Resolve(fs, old, FALSE)
        n == Resolve(fs, new, FALSE)
    IN  IF o.err # "" \/ ~o.exists \/ n.err # "" \/ n.exists THEN Failed(fs)
        ELSE IF fs[o.path].k = "dir" \/ Denied(fs, n.path) THEN Failed(fs)
        ELSE [fs |-> With(fs, n.path, fs[o.path]), err |-> FALSE, hit |-> {n.path, o.path}]

\* os.Symlink(target, new): the target is stored as given
Symlink(fs, target, new) ==
    LET n == Resolve(fs, new, FALSE) IN
    IF n.err # "" \/ n.exists \/ Denied(fs, n.path) THEN Failed(fs)
    ELSE Done(With(fs, n.path, SymNode(target)), {n.path})

\* os.Chmod: follows symbolic links
Chmod(fs, p, m) ==
    LET r == Resolve(fs, p, TRUE) IN
    IF r.err # "" \/ ~r.exists THEN Failed(fs)
    ELSE Done(With(fs, r.path, [fs[r.path] EXCEPT !.m = m]), {r.path})

\* --------------------------------------------------------------- extractor
\* A tar header: name and linkname are character sequences; typ is "dir",
\* "reg", "link" (hard link) or "sym"; data stands for the file's bytes.
\* The state of one extraction: the filesystem, the directory modes recorded
\* so far, the error ("" while there is none), the physical paths touched,
\* and the number of entries the walker still handles before it sees the
\* context cancelled.
Ok(st) == st.err = ""
Fail(st, e) == [st EXCEPT !.err = e]
Apply(st, r, e) ==
    [st EXCEPT !.fs = r.fs, !.hit = st.hit \cup r.hit, !.err = IF r.err THEN e ELSE ""]

\* the children the loop over Readdir removes: all of them
Cleared_files(fs, kids) == {q \in kids : fs[q].k # "dir"}
Cleared(fs, kids) == kids

\* applyOpaqueWhiteout: remove every child of the directory of the entry.
\* Readdir on something that is not a directory never reports io.EOF, so the
\* loop does not end: the outcome "hang".
applyOpaqueWhiteout(st, dst, whiteout) ==
    LET base == Join(dst, Dir(whiteout))
        s == Stat(st.fs, base)
    IN  IF ~s.ok THEN (IF s.notexist THEN st ELSE Fail(st, "whiteout"))
        ELSE IF s.node.k # "dir" THEN Fail(st, "hang")
        ELSE LET kids == Cleared(st.fs, Children(st.fs, s.path))
                 gone == UNION {Subtree(st.fs, q) : q \in kids}
             IN  [st EXCEPT !.fs = Without(st.fs, gone), !.hit = st.hit \cup kids]

\* applySimpleWhiteout: remove the sibling named by the entry, if it exists
applySimpleWhiteout(st, dst, whiteout) ==
    LET b == Base(whiteout)
        file == CleanOnto(Join(dst, Dir(whiteout)), Split(SubSeq(b, 5, Len(b))))
        s == Stat(st.fs, file)
    IN  IF ~s.ok THEN (IF s.notexist THEN st ELSE Fail(st, "whiteout"))
        ELSE IF s.node.k = "dir" THEN Apply(st, RemoveAll(st.fs, file), "whiteout")
        ELSE Apply(st, Remove(st.fs, file), "whiteout")

applyWhiteout(st, dst, whiteout) ==
    IF HasSuffix(whiteout, OpqName)
    THEN applyOpaqueWhiteout(st, dst, whiteout)
    ELSE applySimpleWhiteout(st, dst, whiteout)

\* the mode the first walk creates a directory with
DirCreateMode_declared(h) == h.mode
DirCreateMode(h) == 755

\* first walk: whiteouts, the unsafe-path check, directories.  rej notes
\* whether an entry refused as unsafe had changed the filesystem by then.
Pass1(st, dst, h) ==
    LET w == IF isWhiteoutPath(h.name) THEN applyWhiteout(st, dst, h.name) ELSE st IN
    IF ~Ok(w) THEN w
    ELSE IF unsafepath(h.name) THEN Fail([w EXCEPT !.rej = (w.fs # st.fs)], "unsafe")
    ELSE IF h.typ = "dir"
         THEN LET file == Join(dst, h.name)
                  mk == Apply(w, MkdirAll(w.fs, file, DirCreateMode(h)), "mkdir")
              IN  IF ~Ok(mk) THEN mk
                  ELSE [mk EXCEPT !.dirmodes =
                          [q \in DOMAIN mk.dirmodes \cup {file} |->
                              IF q = file THEN h.mode ELSE mk.dirmodes[q]]]
         ELSE w

\* os.FileMode(h.Mode) as os.OpenFile uses it: the nine permission bits;
\* the set-uid, set-gid and sticky bits of a tar header are other bits in
\* an os.FileMode and are dropped.  Modes are written as octal digits.
Perm(m) == m % 1000

\* second walk: regular files
Pass2(st, dst, h) ==
    IF h.typ # "reg" THEN st
    ELSE IF isWhiteoutPath(h.name) THEN st
    ELSE LET file == Join(dst, h.name)
             s == Stat(st.fs, file)
             rm == IF s.ok /\ s.node.k # "dir"
                   THEN Apply(st, Remove(st.fs, file), "replace") ELSE st
         IN  IF ~Ok(rm) THEN rm
             ELSE Apply(rm, WriteFile(rm.fs, file, Perm(h.mode), h.data), "create")

\* old, the file a link entry is linked to: beside the link when the link
\* name starts with a dot or has no slash, else below the destination
LinkTarget_dst(dst, new, linkname) == Join(dst, linkname)
LinkTarget(dst, new, linkname) ==
    IF linkname[1] = "." \/ ~ContainsSlash(linkname)
    THEN Join(Front(new), linkname)
    ELSE Join(dst, linkname)

\* third walk: hard and symbolic links
Pass3(st, dst, h) ==
    IF h.typ # "link" /\ h.typ # "sym" THEN st
    ELSE IF h.linkname = <<>> THEN Fail(st, "panic")
    ELSE LET new == Join(dst, h.name)
             old == LinkTarget(dst, new, h.linkname)
             s == Lstat(st.fs, new)
             rm == IF s.ok /\ s.node.k # "dir"
                   THEN Apply(st, Remove(st.fs, new), "replace") ELSE st
         IN  IF ~Ok(rm) THEN rm
             ELSE IF h.typ = "link" THEN Apply(rm, Link(rm.fs, old, new), "link")
             ELSE Apply(rm, Symlink(rm.fs, h.linkname, new), "symlink")

Handle(pass, st, dst, h) ==
    IF pass = 1 THEN Pass1(st, dst, h)
    ELSE IF pass = 2 THEN Pass2(st, dst, h)
    ELSE Pass3(st, dst, h)

\* walkTar: hand every header to the handler of this pass; stop at the first
\* error, at a cancelled context, or where a truncated archive ends
\* case <-ctx.Done(): the context is seen cancelled
Cancelled_never(st) == FALSE
Cancelled(st) == st.left = 0

RECURSIVE walkTar(_, _, _, _, _, _)
walkTar(pass, st, dst, entries, i, complete) ==
    IF ~Ok(st) THEN st
    ELSE IF i > Len(entries) THEN (IF complete THEN st ELSE Fail(st, "walk"))
    ELSE IF Cancelled(st) THEN Fail(st, "interrupted")
    ELSE walkTar(pass, Handle(pass, [st EXCEPT !.left = st.left - 1], dst, entries[i]),
                 dst, entries, i + 1, complete)

\* untarLayer: the three walks over one archive, each starting where the one
\* before ended.  An archive is the record [entries, complete]; an
\* incomplete one is a file whose download did not finish, readable up to
\* the entries it holds.
RECURSIVE walks(_, _, _, _)
walks(pass, st, dst, archive) ==
    IF pass > 3 THEN st
    ELSE walks(pass + 1, walkTar(pass, st, dst, archive.entries, 1, archive.complete),
               dst, archive)

untarLayer(st, dst, archive) == walks(1, st, dst, archive)

\* length of the path as a string, as len(order[j]) sees it
RECURSIVE StrLen(_)
StrLen(p) == IF p = <<>> THEN 0 ELSE 1 + Len(Head(p)) + StrLen(Tail(p))

\* setDirectoryPermissions: the directories that still exist get their
\* recorded mode, longer paths first.  Paths of equal length are handled in
\* no particular order, so when two of them name the same directory either
\* mode may be the one that stays: the result is a set of filesystems.
\* err is TRUE when a recorded path exists and is not a directory, or cannot
\* be examined.
setDirectoryPermissions(fs, dirmodes) ==
    LET keys == DOMAIN dirmodes
        bad == {q \in keys : LET s == Stat(fs, q) IN
                    (~s.ok /\ ~s.notexist) \/ (s.ok /\ s.node.k # "dir")}
        order == {q \in keys : Stat(fs, q).ok}
        dirs == {Stat(fs, q).path : q \in order}
        naming(d) == {q \in order : Stat(fs, q).path = d}
        last(d) == {q \in naming(d) : \A o \in naming(d) : StrLen(q) <= StrLen(o)}
        picks == {g \in [dirs -> {dirmodes[q] : q \in order}] :
                     \A d \in dirs : \E q \in last(d) : g[d] = dirmodes[q]}
    IN  IF bad # {} THEN [err |-> TRUE, results |-> {fs}, hit |-> {}]
        ELSE [err |-> FALSE,
              results |-> {[q \in DOMAIN fs |-> IF q \in dirs
                                THEN [fs[q] EXCEPT !.m = g[q]] ELSE fs[q]] : g \in picks},
              hit |-> dirs]

\* ------------------------------------------------------------ the program
Callers == {"c1", "c2"}
Digests == {"d1", "d2"}
DigestOrder == <<"d1", "d2">>
Dsts == {"A", "B", "As", "R", "C"}
Stores == {"s1", "s2"}
NoCancel == 99          \* more entries than any walk handles

\* the destination argument as the command line gives it ("As" names the
\* directory of "A" with a slash at its end, "R" names it relative to the
\* working directory, which is the root, "C" names the directory of the
\* cache "s1" with a slash at its end), and as a path
DstStr(d) == IF d = "A" THEN <<"/", "v", "/", "r", "/", "a">>
             ELSE IF d = "As" THEN <<"/", "v", "/", "r", "/", "a", "/">>
             ELSE IF d = "R" THEN <<"v", "/", "r", "/", "a">>
             ELSE IF d = "C" THEN <<"/", "s1", "/">>
             ELSE <<"/", "v", "/", "r", "/", "b">>
DstPath(d) == Join(<<>>, DstStr(d))
Inside(dst, p) == IsPrefix(dst, p)

RECURSIVE SeqsUpTo(_, _)
SeqsUpTo(S, n) ==
    IF n = 0 THEN {<<>>}
    ELSE LET shorter == SeqsUpTo(S, n - 1) IN
         shorter \cup {Append(q, x) : q \in {r \in shorter : Len(r) = n - 1}, x \in S}

\* the manifests a registry may answer with
Manifests == SeqsUpTo(Digests, MaxLayers) \ {<<>>}

Entry(n, t, m, l, d) == [name |-> n, typ |-> t, mode |-> m, linkname |-> l, data |-> d]

\* the entries the layers of a drawn registry are made of: a read-only
\* directory, a file below the name s, a whiteout and a directory with a
\* traversal in their names, and s as a symbolic link to the parent
UntarEntries ==
    { Entry(<<"a", "/">>, "dir", 500, <<>>, ""),
      Entry(<<"s", "/", "x">>, "reg", 644, <<>>, "s1"),
      Entry(<<".", ".", "/", ".", "w", "h", ".", "x">>, "reg", 644, <<>>, ""),
      Entry(<<".", ".", "/", "e", "/">>, "dir", 755, <<>>, ""),
      Entry(<<"s">>, "sym", 777, <<".", ".">>, "") }

\* the entries of a stack of layers with whiteouts: a read-only directory
\* and a file in it, a symbolic link l whose target does not exist, and
\* the whiteouts of the file, of the link and of the directory
StackEntries ==
    { Entry(<<"a", "/">>, "dir", 500, <<>>, ""),
      Entry(<<"a", "/", "f">>, "reg", 644, <<>>, "f1"),
      Entry(<<"a", "/", ".", "w", "h", ".", "f">>, "reg", 644, <<>>, ""),
      Entry(<<"l">>, "sym", 777, <<"n">>, ""),
      Entry(<<".", "w", "h", ".", "l">>, "reg", 644, <<>>, ""),
      Entry(<<".", "w", "h", ".", "a">>, "reg", 644, <<>>, "") }

\* the entries of layers with hard links: a directory b, a file a at the
\* top and another in b, and links in b named a (no slash), ../a (a dot
\* first) and b/a (a slash, no dot first)
LinkEntries ==
    { Entry(<<"b", "/">>, "dir", 755, <<>>, ""),
      Entry(<<"a">>, "reg", 644, <<>>, "top"),
      Entry(<<"b", "/", "a">>, "reg", 644, <<>>, "sib"),
      Entry(<<"b", "/", "c">>, "link", 644, <<"a">>, ""),
      Entry(<<"b", "/", "d">>, "link", 644, <<".", ".", "/", "a">>, ""),
      Entry(<<"b", "/", "e">>, "link", 644, <<"b", "/", "a">>, "") }

\* the entries of layers with whiteouts of things that are not there: a
\* file g, the whiteout of m, of x in the directory n, of x below g, and
\* the opaque whiteouts of the directory n and of h below g
MissingEntries ==
    { Entry(<<"g">>, "reg", 644, <<>>, "g1"),
      Entry(<<".", "w", "h", ".", "m">>, "reg", 644, <<>>, ""),
      Entry(<<"n", "/", ".", "w", "h", ".", "x">>, "reg", 644, <<>>, ""),
      Entry(<<"g", "/", ".", "w", "h", ".", "x">>, "reg", 644, <<>>, ""),
      Entry(<<"n", "/">> \o OpqName, "reg", 644, <<>>, ""),
      Entry(<<"g", "/", "h", "/">> \o OpqName, "reg", 644, <<>>, "") }

\* the entries of layers with opaque whiteouts: directories three deep, a
\* file and another directory in the first of them, and the opaque
\* whiteouts of that directory and of the destination
OpaqueEntries ==
    { Entry(<<"a", "/", "b", "/", "c", "/">>, "dir", 755, <<>>, ""),
      Entry(<<"a", "/", "f">>, "reg", 644, <<>>, "f1"),
      Entry(<<"a", "/", "d", "/">>, "dir", 755, <<>>, ""),
      Entry(<<"a", "/">> \o OpqName, "reg", 644, <<>>, ""),
      Entry(OpqName, "reg", 644, <<>>, "") }

\* the entries of layers that write one path several times: the file p
\* with two contents (the second with the set-uid bit), p as a symbolic
\* link whose target does not exist, and the whiteout of p
ReplaceEntries ==
    { Entry(<<"p">>, "reg", 644, <<>>, "v1"),
      Entry(<<"p">>, "reg", 4755, <<>>, "v2"),
      Entry(<<"p">>, "sym", 777, <<"n">>, ""),
      Entry(<<".", "w", "h", ".", "p">>, "reg", 644, <<>>, "") }

\* the entries of layers that turn a directory into something else: the
\* directory r, its whiteout, and r as a regular file and as a symbolic
\* link whose target does not exist
RetypeEntries ==
    { Entry(<<"r", "/">>, "dir", 500, <<>>, ""),
      Entry(<<".", "w", "h", ".", "r">>, "reg", 644, <<>>, ""),
      Entry(<<"r">>, "reg", 644, <<>>, "r1"),
      Entry(<<"r">>, "sym", 777, <<"n">>, "") }

\* the layers served under the two digests: a read-only directory, a file
FixedBlobs ==
    [d \in Digests |->
        IF d = "d1" THEN << Entry(<<"a", "/">>, "dir", 500, <<>>, "") >>
        ELSE << Entry(<<"g">>, "reg", 644, <<>>, "g2") >>]

InitFs ==
    (<<>> :> DirNode(755)) @@ (<< <<"v">> >> :> DirNode(755))
    @@ (<< <<"v">>, <<"r">> >> :> DirNode(755))
    @@ (<< <<"v">>, <<"r">>, <<"x">> >> :> FileNode(644, "x0"))

VARIABLES
    fs,         \* the filesystem outside the cache
    blob,       \* the registry: digest -> the entries of its layer
    layerFile,  \* per cache, layers/<digest>.layer : "absent", "partial" or
                \* "complete"
    links,      \* per cache, links/<md5(dst)>.link : destination -> lines
                \* of the file
    mu,         \* iplocks: <<process, lock path>> -> the caller holding the mutex
    flock,      \* the file locks: lock path -> the caller holding it
    cs,         \* each caller: where it is in pull or purge, and its locals
    lastOk,     \* history: per cache, destination -> digests of the last
                \* extraction that succeeded
    escaped,    \* paths outside the destination the extractor has touched
    filelock,   \* the InterProcessLock objects that are kept for another use
                \* and whose filelock field is set: <<thread, lock path>>
    remote,     \* a Remote, what its registry answers, and its Digest calls
    registry,   \* the provider registry: name -> provider
    priority,   \* the names in the order RegisterProvider was called with them
    registered, \* history: the providers in the order they were registered
    found,      \* what the last LookupProvider returned
    parsed      \* an image reference, what Parse made of it, and what Parse
                \* made of the String of that

vars == <<fs, blob, layerFile, links, mu, flock, cs, env, lastOk, escaped, filelock,
          remote, registry, priority, registered, found, parsed>>

\* the variables of the commands pull and purge, those of the provider
\* registry, and those of the library code that the commands leave alone
progvars == <<fs, blob, layerFile, links, mu, flock, cs, env, lastOk, escaped, filelock>>
regvars == <<registry, priority, registered, found>>
libvars == <<remote, regvars, parsed>>

\* the registry of a process in which nothing is registered
NoFound == [calls |-> 0, id |-> 0, err |-> FALSE]
RegStart ==
    /\ registry = <<>>
    /\ priority = <<>>
    /\ registered = <<>>
    /\ found = NoFound

\* the zero URL, and no reference parsed yet
ZeroURL == [name |-> <<>>, host |-> <<>>, repository |-> <<>>, tag |-> <<>>, digest |-> <<>>]
NoParse == [input |-> <<>>, calls |-> 0, url |-> ZeroURL, err |-> FALSE,
            again |-> ZeroURL, againerr |-> FALSE]
UrlStart == parsed = NoParse

LockPaths == Stores \cup Dsts

\* the Remote of the runs that look at the cache and the destinations only
NoList == [kind |-> "none", manifests |-> <<>>]
NoRemote == [lst |-> NoList, head |-> "", bound |-> FALSE,
             platform |-> [architecture |-> "", os |-> ""], calls |-> 0,
             digest |-> "", err |-> <<>>]

\* lockDestination: the lock file of a destination is named by the
\* destination string with ".lock" appended; lockCache: the file ".lock" in
\* the directory of the cache, whose content is outside the modelled
\* filesystem
DotLock == <<".", "l", "o", "c", "k">>
LockFileOf(x) == IF x \in Stores THEN << <<x>>, DotLock >> ELSE Join(<<>>, DstStr(x) \o DotLock)

\* localMutex: one mutex for each lock path string of a process; the lock
\* path of the destination "C" is the string of the lock path of the cache
MutexOf(x) == IF x = "C" THEN "s1" ELSE x
CacheLocks == {LockFileOf(s) : s \in Stores}
LockFiles == {LockFileOf(x) : x \in LockPaths}
Procs == {"p"} \cup Callers
Free == "-"

Idle == [pc |-> "idle", op |-> "none", proc |-> "p", store |-> "s1", dst |-> "A",
         man |-> <<>>, i |-> 1, ch |-> <<>>, digests |-> <<>>,
         dirmodes |-> <<>>, ret |-> "", err |-> "", held |-> <<>>,
         applied |-> <<>>, wrote |-> FALSE, ooo |-> FALSE, rej |-> FALSE,
         plinks |-> <<>>, todo |-> {}, live |-> {}, kept |-> {}, dead |-> {},
         cached |-> <<>>, pre |-> {}]

\* the state every specification starts from, but for its setting
Start ==
    /\ fs = InitFs
    /\ layerFile = [s \in Stores |-> [d \in Digests |-> "absent"]]
    /\ links = [s \in Stores |-> <<>>]
    /\ mu = [x \in Procs \X LockPaths |-> Free]
    /\ flock = [x \in LockFiles |-> Free]
    /\ cs = [c \in Callers |-> Idle]
    /\ lastOk = [s \in Stores |-> [d \in Dsts |-> <<>>]]
    /\ escaped = {}
    /\ filelock = {}
    /\ remote = NoRemote
    /\ RegStart
    /\ UrlStart

\* LinkPath: the link file of a destination is named by the md5 of the
\* destination string, one file per destination string
LinkPath(dst) == dst

\* strings.Count(dest, "/")
CountSlash(s) == Cardinality({i \in 1..Len(s) : s[i] = "/"})

Range(q) == {q[j] : j \in 1..Len(q)}

Set(c, rec) == cs' = [cs EXCEPT ![c] = rec]
At(c, pcs) == cs[c].pc \in pcs

\* an operation ends with an error: the deferred unlocks are still to run
RetErr(me, e) == [me EXCEPT !.pc = "ret", !.ret = "err", !.err = e]

\* ------------------------------------------------------------------ locks
\* InterProcessLock.Lock: first the mutex of this process for the path, then
\* the file lock, each blocking until it is free
MutexFree_open(proc, path) == TRUE
MutexFree(proc, path) == mu[<<proc, MutexOf(path)>>] = Free
FlockFree_open(path) == TRUE
FlockFree(path) == flock[LockFileOf(path)] = Free

LockPathAt(c) == IF At(c, {"lockc", "flockc"}) THEN cs[c].store ELSE cs[c].dst

LockMutex(c) ==
    /\ At(c, {"lockc", "lockd"})
    /\ MutexFree(cs[c].proc, LockPathAt(c))
    /\ mu' = [mu EXCEPT ![<<cs[c].proc, MutexOf(LockPathAt(c))>>] = c]
    /\ Set(c, [cs[c] EXCEPT !.pc = IF cs[c].pc = "lockc" THEN "flockc" ELSE "flockd"])
    /\ UNCHANGED <<fs, blob, layerFile, links, flock, env, libvars, filelock, lastOk, escaped>>

\* The lock file is opened, and created when missing, then locked.  When it
\* cannot be opened MustLock panics, which ends the process: every thread of
\* it stops and its locks are released.  A file lock belongs to the file
\* that was opened: once that file is removed, the name is free for the next
\* file created under it.
Dropped(f, newfs) ==
    [x \in DOMAIN f |-> IF x \notin CacheLocks /\ ~Lstat(newfs, x).ok THEN Free ELSE f[x]]

Threads(proc) == {x \in Callers : cs[x].proc = proc /\ cs[x].pc # "idle"}

UnlockedAll(f, C) == [x \in DOMAIN f |-> IF f[x] \in C THEN Free ELSE f[x]]

LockFile(c) ==
    /\ At(c, {"flockc", "flockd"})
    /\ \E new \in {IF LockPathAt(c) \in Stores THEN Done(fs, {})
                    ELSE OpenCreate(fs, LockFileOf(LockPathAt(c)))} :
         IF new.err
         THEN /\ fs' = fs
              /\ flock' = UnlockedAll(flock, Threads(cs[c].proc))
              /\ mu' = UnlockedAll(mu, Threads(cs[c].proc))
              /\ cs' = [x \in Callers |-> IF x \in Threads(cs[c].proc) THEN Idle ELSE cs[x]]
         ELSE /\ FlockFree(LockPathAt(c))
              /\ fs' = new.fs
              /\ flock' = [flock EXCEPT ![LockFileOf(LockPathAt(c))] = c]
              /\ mu' = mu
              /\ Set(c, [cs[c] EXCEPT
                      !.held = Append(cs[c].held, LockPathAt(c)),
                      !.pc = IF cs[c].pc = "flockd" THEN "readdir"
                             ELSE IF cs[c].op = "pull" THEN "lockd" ELSE "readlinks"])
    /\ UNCHANGED <<blob, layerFile, links, env, libvars, filelock, lastOk, escaped>>

\* InterProcessLock.Unlock for every lock the operation holds (the deferred
\* calls of Extract and Purge), last taken first, and the return.  A
\* worker that still runs ends on its own: its layer file is completed or
\* stays as far as it was written.
Unlocked(f, c) == [x \in DOMAIN f |-> IF f[x] = c THEN Free ELSE f[x]]

Running(me) == {me.man[j] : j \in {k \in 1..Len(me.ch) : me.ch[k] = "run"}}

Return(c) ==
    /\ At(c, {"ret"})
    /\ flock' = Unlocked(flock, c)
    /\ mu' = Unlocked(mu, c)
    /\ \E done \in SUBSET Running(cs[c]) :
          layerFile' = [layerFile EXCEPT ![cs[c].store] =
                           [d \in Digests |-> IF d \in done THEN "complete" ELSE @[d]]]
    /\ Set(c, Idle)
    /\ UNCHANGED <<fs, blob, links, env, libvars, filelock, lastOk, escaped>>

\* --------------------------------------------------------------- commands
\* what r.Layers() may answer: an error, or a manifest (possibly empty)
LayerAnswers == {[err |-> TRUE, man |-> <<>>] : x \in {y \in {1} : env.faults}} \cup
                {[err |-> FALSE, man |-> m] : m \in env.mans}

\* the first caller is a thread of the process "p"; the second is another
\* thread of it or a process of its own
ProcsOf(c) == IF c = "c1" THEN {"p"} ELSE {"p", c}

\* somebody starts a command
Starts(c) == c \in env.callers /\ At(c, {"idle"})

\* `roots pull CONTAINER DEST [--force]`
StartPull(c) ==
    /\ Starts(c)
    /\ \E proc \in ProcsOf(c), store \in env.stores, dst \in env.dsts, force \in BOOLEAN :
          Set(c, [Idle EXCEPT !.pc = IF force THEN "force" ELSE "mkdir", !.op = "pull",
                              !.proc = proc, !.store = store, !.dst = dst])
    /\ UNCHANGED <<fs, blob, layerFile, links, mu, flock, env, libvars, filelock, lastOk, escaped>>

\* `roots purge`
StartPurge(c) ==
    /\ Starts(c)
    /\ \E proc \in ProcsOf(c), store \in env.stores :
          Set(c, [Idle EXCEPT !.pc = "lockc", !.op = "purge", !.proc = proc,
                              !.store = store])
    /\ UNCHANGED <<fs, blob, layerFile, links, mu, flock, env, libvars, filelock, lastOk, escaped>>

\* "not enough path separators to force-remove"
FewSeparators_one(dest) == CountSlash(dest) <= 1
FewSeparators(dest) == CountSlash(dest) <= 2

\* pull --force: refuse short paths, else remove the destination.  The
\* process ends where the path is refused or cannot be removed; err notes
\* the refusal.
CliForce(c) ==
    /\ At(c, {"force"})
    /\ LET me == cs[c]
           rm == RemoveAll(fs, DstPath(me.dst))
       IN  IF FewSeparators(DstStr(me.dst))
           THEN fs' = fs /\ flock' = flock /\ Set(c, [Idle EXCEPT !.err = "separators"])
           ELSE IF rm.err
           THEN fs' = fs /\ flock' = flock /\ Set(c, Idle)
           ELSE /\ fs' = rm.fs
                /\ flock' = Dropped(flock, rm.fs)
                /\ Set(c, [me EXCEPT !.pc = "mkdir"])
    /\ UNCHANGED <<blob, layerFile, links, mu, env, libvars, filelock, lastOk, escaped>>

\* pull: create the destination
CliMkdir(c) ==
    /\ At(c, {"mkdir"})
    /\ LET me == cs[c]
           mk == MkdirAll(fs, DstPath(me.dst), 755)
       IN  IF mk.err
           THEN fs' = fs /\ Set(c, Idle)
           ELSE fs' = mk.fs /\ Set(c, [me EXCEPT !.pc = "layers"])
    /\ UNCHANGED <<blob, layerFile, links, mu, flock, env, libvars, filelock, lastOk, escaped>>

\* somebody deletes a destination directory
EnvRemove(d) ==
    /\ d \in env.dsts
    /\ Exists(fs, DstPath(d))
    /\ fs' = RemoveAll(fs, DstPath(d)).fs
    /\ flock' = Dropped(flock, RemoveAll(fs, DstPath(d)).fs)
    /\ UNCHANGED <<blob, layerFile, links, mu, cs, env, libvars, filelock, lastOk, escaped>>

\* ---------------------------------------------------------------- Extract
\* r.Layers(), and the refusal of an empty manifest
ExtractLayers(c) ==
    /\ At(c, {"layers"})
    /\ \E a \in LayerAnswers :
         LET me == cs[c] IN
         IF a.err THEN Set(c, RetErr(me, "layers"))
         ELSE IF Len(a.man) = 0 THEN Set(c, RetErr(me, "nolayers"))
         ELSE Set(c, [me EXCEPT !.pc = "lockc", !.man = a.man])
    /\ UNCHANGED <<fs, blob, layerFile, links, mu, flock, env, libvars, filelock, lastOk, escaped>>

\* the destination must hold at most one entry
NotEmpty_any(entries) == Cardinality(entries) > 0
NotEmpty(entries) == Cardinality(entries) > 1

ExtractReadDir(c) ==
    /\ At(c, {"readdir"})
    /\ LET me == cs[c]
           s == Stat(fs, DstPath(me.dst))
       IN  IF ~s.ok \/ s.node.k # "dir" THEN Set(c, RetErr(me, "readdir"))
           ELSE IF NotEmpty(Children(fs, s.path)) THEN Set(c, RetErr(me, "notempty"))
           ELSE Set(c, [me EXCEPT !.pc = "download", !.i = 1,
                                  !.pre = Subtree(fs, s.path) \ {s.path}])
    /\ UNCHANGED <<fs, blob, layerFile, links, mu, flock, env, libvars, filelock, lastOk, escaped>>

\* whether downloadLayer finds the layer file of the digest in the cache
Cached_complete(s, d) == layerFile[s][d] = "complete"
Cached(s, d) == layerFile[s][d] # "absent"

\* the loop over the layers ends with the last layer of the manifest
LastLayer_first(me) == TRUE
LastLayer(me) == me.i = Len(me.man)

\* downloadLayer for layer i: a layer file that exists is delivered at once
\* ("hit"); otherwise the file is created and a worker started ("run")
ExtractDownload(c) ==
    /\ At(c, {"download"})
    /\ LET me == cs[c]
           d == me.man[me.i]
           next == IF LastLayer(me) THEN "process" ELSE "download"
           ni == IF LastLayer(me) THEN 1 ELSE me.i + 1
       IN  IF Cached(me.store, d)
           THEN /\ Set(c, [me EXCEPT !.ch = Append(me.ch, "hit"), !.pc = next, !.i = ni])
                /\ layerFile' = layerFile
           ELSE \/ /\ layerFile' = [layerFile EXCEPT ![me.store][d] = "partial"]
                   /\ Set(c, [me EXCEPT !.ch = Append(me.ch, "run"), !.pc = next, !.i = ni])
                \/ /\ env.faults
                   /\ Set(c, RetErr(me, "writing"))
                   /\ layerFile' = layerFile
    /\ UNCHANGED <<fs, blob, links, mu, flock, env, libvars, filelock, lastOk, escaped>>

\* the worker of layer i ends: the blob is in the file, or the download failed
WorkerDone(c, i) ==
    /\ i \in 1..Len(cs[c].ch) /\ cs[c].ch[i] = "run"
    /\ LET me == cs[c]
           early == \E j \in 1..(i - 1) : me.ch[j] = "run"
       IN  \/ /\ layerFile' = [layerFile EXCEPT ![me.store][me.man[i]] = "complete"]
              /\ Set(c, [me EXCEPT !.ch[i] = "ok", !.ooo = me.ooo \/ early])
           \/ /\ env.faults
              /\ layerFile' = layerFile
              /\ Set(c, [me EXCEPT !.ch[i] = "err"])
    /\ UNCHANGED <<fs, blob, links, mu, flock, env, libvars, filelock, lastOk, escaped>>

\* the layer the processing loop waits for: results[i], in manifest order
ToProcess_anyReady(me) == {j \in 1..Len(me.man) : j \notin Range(me.applied)}
ToProcess(me) == {me.i}

\* what untarLayer reads from the layer file of digest d in the cache s
Archives(s, d) ==
    IF layerFile[s][d] = "complete" THEN {[entries |-> blob[d], complete |-> TRUE]}
    ELSE IF layerFile[s][d] = "absent" THEN {[entries |-> <<>>, complete |-> FALSE]}
    ELSE {[entries |-> SubSeq(blob[d], 1, k), complete |-> FALSE] : k \in 0..Len(blob[d])}

\* the entries handled before the walker sees the context cancelled (the
\* interrupt signal may come at any time)
Budgets(archive) ==
    {NoCancel} \cup {n \in 0..(3 * Len(archive.entries) - 1) : env.faults}

\* receive the result of the next layer and extract it into the destination
ExtractProcess(c) ==
    /\ At(c, {"process"})
    /\ \E i \in ToProcess(cs[c]) :
        /\ i \in 1..Len(cs[c].ch) /\ cs[c].ch[i] # "run"
        /\ LET me == cs[c]
               dst == DstPath(me.dst)
           IN  IF me.ch[i] = "err"
               THEN Set(c, RetErr(me, "download")) /\ UNCHANGED <<fs, flock, escaped>>
               ELSE \E archive \in Archives(me.store, me.man[i]) : \E left \in Budgets(archive) :
                    \E r \in {untarLayer([fs |-> fs, dirmodes |-> me.dirmodes, err |-> "",
                                          hit |-> {}, left |-> left, rej |-> FALSE],
                                         dst, archive)} :
                      /\ r.err # "hang"
                      /\ fs' = r.fs
                      /\ flock' = Dropped(flock, r.fs)
                      /\ escaped' = escaped \cup {q \in r.hit : ~Inside(dst, q)}
                      /\ IF r.err # ""
                         THEN Set(c, RetErr([me EXCEPT !.dirmodes = r.dirmodes,
                                                       !.rej = r.rej], r.err))
                         ELSE Set(c, [me EXCEPT
                                 !.dirmodes = r.dirmodes,
                                 !.digests = Append(me.digests, me.man[i]),
                                 !.applied = Append(me.applied, i),
                                 !.i = me.i + 1,
                                 !.pc = IF Len(me.applied) + 1 = Len(me.man)
                                        THEN "chmod" ELSE "process"])
    /\ UNCHANGED <<blob, layerFile, links, mu, env, libvars, filelock, lastOk>>

\* setDirectoryPermissions after the last layer
ExtractChmod(c) ==
    /\ At(c, {"chmod"})
    /\ \E sp \in {setDirectoryPermissions(fs, cs[c].dirmodes)} :
       LET me == cs[c] IN
       IF sp.err THEN Set(c, RetErr(me, "chmod")) /\ UNCHANGED <<fs, escaped>>
       ELSE /\ \E f \in sp.results : fs' = f
            /\ escaped' = escaped \cup {q \in sp.hit : ~Inside(DstPath(me.dst), q)}
            /\ Set(c, [me EXCEPT !.pc = "savelink", !.dirmodes = <<>>])
    /\ UNCHANGED <<blob, layerFile, links, mu, flock, env, libvars, filelock, lastOk>>

\* saveLink: create (truncate) the link file, write the destination and then
\* one digest per line.  failAt names the call that fails: 0 none, 1 the
\* os.Create, 2 the write of the header, 2+k the write of digest k.
saveLink_firstOnly(lk, dst, digests, failAt) ==
    [links |-> With(lk, LinkPath(dst), <<dst>> \o SubSeq(digests, 1, 1)), err |-> failAt # 0]
saveLink(lk, dst, digests, failAt) ==
    IF failAt = 1 THEN [links |-> lk, err |-> TRUE]
    ELSE IF failAt = 2 THEN [links |-> With(lk, LinkPath(dst), <<>>), err |-> TRUE]
    ELSE IF failAt > 2
         THEN [links |-> With(lk, LinkPath(dst), <<dst>> \o SubSeq(digests, 1, failAt - 3)),
               err |-> TRUE]
    ELSE [links |-> With(lk, LinkPath(dst), <<dst>> \o digests), err |-> FALSE]

\* the last step of Extract
ExtractSaveLink(c) ==
    /\ At(c, {"savelink"})
    /\ \E failAt \in {0} \cup {n \in 1..(Len(cs[c].digests) + 2) : env.faults} :
         LET me == cs[c]
             r == saveLink(links[me.store], me.dst, me.digests, failAt)
         IN  /\ links' = [links EXCEPT ![me.store] = r.links]
             /\ IF r.err
                THEN /\ Set(c, [RetErr(me, "savelink") EXCEPT !.wrote = (r.links # links[me.store])])
                     /\ lastOk' = lastOk
                ELSE /\ Set(c, [me EXCEPT !.pc = "ret", !.ret = "ok", !.wrote = TRUE])
                     /\ lastOk' = IF env.history
                                  THEN [lastOk EXCEPT ![me.store][me.dst] = me.digests]
                                  ELSE lastOk
    /\ UNCHANGED <<fs, blob, layerFile, mu, flock, env, libvars, filelock, escaped>>

\* ------------------------------------------------------------------ Purge
\* readLinks: the first line of a link file is the destination, every
\* further line a digest recorded for that destination
readLinks(lk) ==
    LET listed == {f \in DOMAIN lk : Len(lk[f]) >= 2 /\ lk[f][1] # ""}
        dsts == {lk[f][1] : f \in listed}
    IN  [d \in dsts |-> Tail(lk[CHOOSE f \in listed : lk[f][1] = d])]

PurgeReadLinks(c) ==
    /\ At(c, {"readlinks"})
    /\ LET m == readLinks(links[cs[c].store]) IN
       Set(c, [cs[c] EXCEPT !.plinks = m, !.todo = DOMAIN m, !.pc = "plink"])
    /\ UNCHANGED <<fs, blob, layerFile, links, mu, flock, env, libvars, filelock, lastOk, escaped>>

\* the digests the loop over the links marks as known for one destination
Known_none(me, dst) == {}
Known(me, dst) == Range(me.plinks[dst])

\* os.Stat(dst) failed and os.IsNotExist(err)
Missing_always(st) == TRUE
Missing(st) == ~st.ok /\ st.notexist

\* one round of the loop over the links (a map: in no particular order);
\* after the last one the layer files are listed
PurgeLink(c) ==
    /\ At(c, {"plink"})
    /\ LET me == cs[c] IN
       IF me.todo = {}
       THEN /\ Set(c, [me EXCEPT !.pc = "player", !.plinks = <<>>,
                         !.cached = SelectSeq(DigestOrder, LAMBDA d : Cached(me.store, d))])
            /\ links' = links
       ELSE \E dst \in me.todo :
              LET s == Stat(fs, DstPath(dst)) IN
              IF Missing(s)
              THEN /\ links' = [links EXCEPT ![me.store] = Without(@, {LinkPath(dst)})]
                   /\ Set(c, [me EXCEPT !.todo = me.todo \ {dst},
                                !.dead = me.dead \cup Range(me.plinks[dst])])
              ELSE IF ~s.ok
              THEN Set(c, RetErr(me, "stat")) /\ links' = links
              ELSE /\ Set(c, [me EXCEPT !.todo = me.todo \ {dst},
                                !.live = me.live \cup Known(me, dst),
                                !.kept = me.kept \cup {dst}])
                   /\ links' = links
    /\ UNCHANGED <<fs, blob, layerFile, mu, flock, env, libvars, filelock, lastOk, escaped>>

\* whether the loop over the layer files removes the file of digest d
Unknown_keepFirst(me, d) == d \notin me.live /\ d # "d1"
Unknown(me, d) == d \notin me.live

PurgeLayer(c) ==
    /\ At(c, {"player"})
    /\ LET me == cs[c] IN
       IF me.cached = <<>>
       THEN Set(c, [me EXCEPT !.pc = "ret", !.ret = "ok"]) /\ UNCHANGED layerFile
       ELSE LET d == Head(me.cached) IN
            /\ Set(c, [me EXCEPT !.cached = Tail(me.cached)])
            /\ IF Unknown(me, d)
               THEN layerFile' = [layerFile EXCEPT ![me.store][d] = "absent"]
               ELSE UNCHANGED layerFile
    /\ UNCHANGED <<fs, blob, links, mu, flock, env, libvars, filelock, lastOk, escaped>>

\* ---------------------------------------------------------- specification
Next ==
    \/ \E c \in Callers : StartPull(c)
    \/ \E c \in Callers : StartPurge(c)
    \/ \E c \in Callers : CliForce(c)
    \/ \E c \in Callers : CliMkdir(c)
    \/ \E d \in Dsts : EnvRemove(d)
    \/ \E c \in Callers : LockMutex(c)
    \/ \E c \in Callers : LockFile(c)
    \/ \E c \in Callers : Return(c)
    \/ \E c \in Callers : ExtractLayers(c)
    \/ \E c \in Callers : ExtractReadDir(c)
    \/ \E c \in Callers : ExtractDownload(c)
    \/ \E c \in Callers, i \in 1..MaxLayers : WorkerDone(c, i)
    \/ \E c \in Callers : ExtractProcess(c)
    \/ \E c \in Callers : ExtractChmod(c)
    \/ \E c \in Callers : ExtractSaveLink(c)
    \/ \E c \in Callers : PurgeReadLinks(c)
    \/ \E c \in Callers : PurgeLink(c)
    \/ \E c \in Callers : PurgeLayer(c)

\* ------------------------------------------------------------ Remote.Digest
\* A manifest list entry: the digest of the embedded ManifestLayer and the
\* Platform.  What the registry answers to the request for the manifest
\* list: of the kind "none" when the request fails (ManifestList returns
\* nil, nil), "bad" when the body cannot be parsed, or "list" with the
\* manifests.  What it answers to the HEAD request: "" when the request
\* fails, else the Docker-Content-Digest.  The platform of a Remote counts
\* only when one is bound.
MaxManifests == 2
MaxCalls == 2
Archs == {"amd64", "arm"}
Oss == {"linux", "windows"}
Platforms == [architecture : Archs, os : Oss]
ListDigests == {"x", "y"}
PlatformManifests == [digest : ListDigests, platform : Platforms]
ManifestLists == SeqsUpTo(PlatformManifests, MaxManifests)
ListAnswers == {NoList, [kind |-> "bad", manifests |-> <<>>]} \cup
               {[kind |-> "list", manifests |-> l] : l \in ManifestLists}
HeadAnswers == {"", "foobar"}
Url == "u"

\* Platform.String and Remote.String
PlatformString(p) == <<p.os, "/", p.architecture>>
RemoteString(r) ==
    IF r.bound THEN <<Url, " ">> \o PlatformString(r.platform) ELSE <<Url>>

\* m.Platform == *r.platform
Matches_archOnly(m, p) == m.platform.architecture = p.architecture
Matches(m, p) == m.platform = p

\* the loop over lst.Manifests: the index of the first match, 0 if none
RECURSIVE FirstMatch(_, _, _)
FirstMatch(lst, p, i) ==
    IF i > Len(lst) THEN 0
    ELSE IF Matches(lst[i], p) THEN i
    ELSE FirstMatch(lst, p, i + 1)

IsList(lst) == lst.kind = "list"

\* lst.Manifests[0]
FirstManifest_last(lst) == lst[Len(lst)]
FirstManifest(lst) == lst[1]

\* Remote.Digest: the digest and the error (<<>> for nil)
Digest(r) ==
    IF r.lst.kind = "bad" THEN [digest |-> "", err |-> <<"error parsing manifest list">>]
    ELSE IF ~r.bound /\ IsList(r.lst) /\ Len(r.lst.manifests) # 0
         THEN [digest |-> FirstManifest(r.lst.manifests).digest, err |-> <<>>]
    ELSE IF ~r.bound
         THEN (IF r.head = "" THEN [digest |-> "", err |-> <<"failed to fetch manifest">>]
               ELSE [digest |-> r.head, err |-> <<>>])
    ELSE IF r.lst.kind = "none"
         THEN [digest |-> "", err |-> <<"no multi-platform support: ", Url>>]
    ELSE LET i == FirstMatch(r.lst.manifests, r.platform, 1) IN
         IF i # 0 THEN [digest |-> r.lst.manifests[i].digest, err |-> <<>>]
         ELSE [digest |-> "", err |-> <<"no manifest found for ">> \o RemoteString(r)]

\* WithPlatform
WithPlatform(p) ==
    /\ ~remote.bound \/ remote.platform # p
    /\ remote' = [remote EXCEPT !.bound = TRUE, !.platform = p]
    /\ UNCHANGED <<progvars, regvars, parsed>>

\* a call of Digest
CallDigest ==
    /\ remote.calls < MaxCalls
    /\ remote' = [remote EXCEPT !.calls = @ + 1, !.digest = Digest(remote).digest,
                                !.err = Digest(remote).err]
    /\ UNCHANGED <<progvars, regvars, parsed>>

NextDigest ==
    \/ \E p \in Platforms : WithPlatform(p)
    \/ CallDigest

\* NewRemote: no platform is bound; the registry answers in any way
InitDigest ==
    /\ fs = InitFs
    /\ blob = FixedBlobs
    /\ layerFile = [s \in Stores |-> [d \in Digests |-> "absent"]]
    /\ links = [s \in Stores |-> <<>>]
    /\ mu = [x \in Procs \X LockPaths |-> Free]
    /\ flock = [x \in LockFiles |-> Free]
    /\ cs = [c \in Callers |-> Idle]
    /\ env = [callers |-> {}, dsts |-> {}, mans |-> {},
              stores |-> {"s1"},
              root |-> TRUE, faults |-> FALSE, history |-> FALSE]
    /\ lastOk = [s \in Stores |-> [d \in Dsts |-> <<>>]]
    /\ escaped = {}
    /\ filelock = {}
    /\ \E lst \in ListAnswers, head \in HeadAnswers :
          remote = [NoRemote EXCEPT !.lst = lst, !.head = head]
    /\ RegStart
    /\ UrlStart

SpecDigest == InitDigest /\ [][NextDigest]_vars

\* ------------------------------------------------- the provider registry
\* A provider is the object handed to RegisterProvider: id tells the
\* objects apart (the number of its registration), supports is what its
\* Supports answers for the url that is looked up.
MaxRegistrations == 3
MaxLookups == 2
ProviderNames == {"foo", "bar", "baz"}

\* RegisterProvider: registry[name] = provider; priority = append(priority, name)
RegisterProvider(name, supports) ==
    /\ Len(registered) < MaxRegistrations
    /\ \E provider \in {[id |-> Len(registered) + 1, supports |-> supports]} :
          /\ registry' = [n \in DOMAIN registry \cup {name} |->
                             IF n = name THEN provider ELSE registry[n]]
          /\ registered' = Append(registered, provider)
    /\ priority' = Append(priority, name)
    /\ UNCHANGED <<progvars, remote, parsed, found>>

\* ClearProviderRegistry
ClearProviderRegistry ==
    /\ registered # <<>>
    /\ registry' = <<>>
    /\ priority' = <<>>
    /\ registered' = <<>>
    /\ UNCHANGED <<progvars, remote, parsed, found>>

\* the loop of LookupProvider over priority from position i: the id of the
\* provider returned, 0 with the error "no provider for"
RECURSIVE Lookup(_, _, _)
Lookup(reg, prio, i) ==
    IF i > Len(prio) THEN [id |-> 0, err |-> TRUE]
    ELSE IF reg[prio[i]].supports THEN [id |-> reg[prio[i]].id, err |-> FALSE]
    ELSE Lookup(reg, prio, i + 1)

\* a call of LookupProvider
LookupProvider ==
    /\ found.calls < MaxLookups
    /\ found' = [calls |-> found.calls + 1, id |-> Lookup(registry, priority, 1).id,
                 err |-> Lookup(registry, priority, 1).err]
    /\ UNCHANGED <<progvars, remote, parsed, registry, priority, registered>>

NextRegistry ==
    \/ \E name \in ProviderNames, supports \in BOOLEAN : RegisterProvider(name, supports)
    \/ ClearProviderRegistry
    \/ LookupProvider

\* a process at its start: nothing is registered
InitRegistry ==
    /\ fs = InitFs
    /\ blob = FixedBlobs
    /\ layerFile = [s \in Stores |-> [d \in Digests |-> "absent"]]
    /\ links = [s \in Stores |-> <<>>]
    /\ mu = [x \in Procs \X LockPaths |-> Free]
    /\ flock = [x \in LockFiles |-> Free]
    /\ cs = [c \in Callers |-> Idle]
    /\ env = [callers |-> {}, dsts |-> {}, mans |-> {},
              stores |-> {"s1"},
              root |-> TRUE, faults |-> FALSE, history |-> FALSE]
    /\ lastOk = [s \in Stores |-> [d \in Dsts |-> <<>>]]
    /\ escaped = {}
    /\ filelock = {}
    /\ remote = NoRemote
    /\ RegStart
    /\ UrlStart

SpecRegistry == InitRegistry /\ [][NextRegistry]_vars

\* ------------------------------------------------------- image references
\* A reference is a sequence of characters.  A letter, the characters the
\* parser looks for, and a blank; the defaults are written with one symbol
\* for each run of characters the parser does not look for.
MaxUrlLen == 5
UrlChars == {"a", ".", ":", "/", "@", " "}
Inputs == SeqsUpTo(UrlChars, MaxUrlLen)
DefaultHost == <<"registry-1", ".", "docker", ".", "io">>
DefaultRepository == <<"library">>
DefaultTag == <<"latest">>

\* strings.Trim(url, " \n\t")
Cutset == {" ", "\n", "\t"}
RECURSIVE TrimLeft(_)
TrimLeft(t) == IF t # <<>> /\ Head(t) \in Cutset THEN TrimLeft(Tail(t)) ELSE t
RECURSIVE TrimRight(_)
TrimRight(t) == IF t # <<>> /\ Last(t) \in Cutset THEN TrimRight(Front(t)) ELSE t
Trim(t) == TrimRight(TrimLeft(t))

\* strings.Contains for one character, strings.ContainsAny
Contains(t, ch) == \E i \in 1..Len(t) : t[i] = ch
ContainsAny(t, chars) == \E i \in 1..Len(t) : t[i] \in chars

\* bisect: strings.SplitN(text, delimiter, 2), for a text with the delimiter
bisect(text, delimiter) ==
    LET k == CHOOSE i \in 1..Len(text) :
                 text[i] = delimiter /\ \A j \in 1..(i - 1) : text[j] # delimiter
    IN  <<SubSeq(text, 1, k - 1), SubSeq(text, k + 1, Len(text))>>

\* the URL Parse returns with an error
ErrorURL_partial(p) == p
ErrorURL(p) == ZeroURL

\* the defaults Parse adds at its end
WithDefaults_noTag(p) ==
    [p EXCEPT !.host = IF p.host = <<>> THEN DefaultHost ELSE p.host,
              !.repository = IF p.repository = <<>> THEN DefaultRepository
                             ELSE p.repository]
WithDefaults(p) ==
    [p EXCEPT !.host = IF p.host = <<>> THEN DefaultHost ELSE p.host,
              !.tag = IF p.tag = <<>> THEN DefaultTag ELSE p.tag,
              !.repository = IF p.repository = <<>> THEN DefaultRepository
                             ELSE p.repository]

\* Parse: the URL and whether an error is returned with it
Parse(text) ==
    LET t == Trim(text) IN
    IF t = <<>> THEN [url |-> ErrorURL(ZeroURL), err |-> TRUE]
    ELSE
    LET hasDigest == Contains(t, "@")
        url == IF hasDigest THEN bisect(t, "@")[1] ELSE t
        digest == IF hasDigest THEN bisect(t, "@")[2] ELSE <<>>
        split == Split(url)
        hasHost == Contains(url, "/") /\ ContainsAny(split[1], {".", ":"})
        host == IF hasHost THEN split[1] ELSE <<>>
        rest == IF hasHost THEN Tail(split) ELSE split
        last == rest[Len(rest)]
        hasTag == Contains(last, ":")
        tag == IF hasTag THEN bisect(last, ":")[2] ELSE <<>>
        parts == IF hasTag THEN [rest EXCEPT ![Len(rest)] = bisect(last, ":")[1]] ELSE rest
        p == [name |-> IF Len(parts) = 1 THEN parts[1]
                       ELSE IF Len(parts) = 2 THEN parts[2] ELSE <<>>,
              host |-> host,
              repository |-> IF Len(parts) = 2 THEN parts[1] ELSE <<>>,
              tag |-> tag,
              digest |-> digest]
    IN  IF Len(parts) > 2 THEN [url |-> ErrorURL(p), err |-> TRUE]
        ELSE IF p.name = <<>> THEN [url |-> ErrorURL(p), err |-> TRUE]
        ELSE [url |-> WithDefaults(p), err |-> FALSE]

\* URL.String
URLString(u) ==
    IF u.name = <<>> THEN <<"<empty>">>
    ELSE u.host \o <<"/">> \o u.repository \o <<"/">> \o u.name \o <<":">> \o u.tag
         \o (IF u.digest = <<>> THEN <<>> ELSE <<"@">> \o u.digest)

\* a call of Parse with the reference
CallParse ==
    /\ parsed.calls = 0
    /\ parsed' = [parsed EXCEPT !.calls = 1, !.url = Parse(parsed.input).url,
                                !.err = Parse(parsed.input).err]
    /\ UNCHANGED <<progvars, remote, regvars>>

\* a call of Parse with the String of the URL the first call returned
ParseString ==
    /\ parsed.calls = 1
    /\ parsed' = [parsed EXCEPT !.calls = 2,
                                !.again = Parse(URLString(parsed.url)).url,
                                !.againerr = Parse(URLString(parsed.url)).err]
    /\ UNCHANGED <<progvars, remote, regvars>>

NextUrl ==
    \/ CallParse
    \/ ParseString

\* any reference of up to MaxUrlLen characters
InitUrl ==
    /\ fs = InitFs
    /\ blob = FixedBlobs
    /\ layerFile = [s \in Stores |-> [d \in Digests |-> "absent"]]
    /\ links = [s \in Stores |-> <<>>]
    /\ mu = [x \in Procs \X LockPaths |-> Free]
    /\ flock = [x \in LockFiles |-> Free]
    /\ cs = [c \in Callers |-> Idle]
    /\ env = [callers |-> {}, dsts |-> {}, mans |-> {},
              stores |-> {"s1"},
              root |-> TRUE, faults |-> FALSE, history |-> FALSE]
    /\ lastOk = [s \in Stores |-> [d \in Dsts |-> <<>>]]
    /\ escaped = {}
    /\ filelock = {}
    /\ remote = NoRemote
    /\ RegStart
    /\ \E input \in Inputs : parsed = [NoParse EXCEPT !.input = input]

SpecUrl == InitUrl /\ [][NextUrl]_vars

\* ------------------------------------------------- the lock package alone
\* Threads use InterProcessLock on the paths of TestLockSimple.  A Lock is
\* called on a new object or on the object the thread keeps for the path;
\* Lock refuses an object whose filelock field is set, and Unlock leaves the
\* field set.
TestPaths == {"A", "B"}

\* Lock, first half: localMutex() and local.Lock()
LibLock(c, x, keep) ==
    /\ At(c, {"idle"})
    /\ MutexFree(cs[c].proc, x)
    /\ mu' = [mu EXCEPT ![<<cs[c].proc, x>>] = c]
    /\ Set(c, [cs[c] EXCEPT !.pc = IF keep THEN "lkeep" ELSE "lnew",
                            !.op = "lock", !.dst = x, !.err = ""])
    /\ UNCHANGED <<fs, blob, layerFile, links, flock, env, libvars, lastOk, escaped, filelock>>

\* Lock, second half: the check of filelock, filemutex.New and filelock.Lock
LibFlock(c) ==
    /\ At(c, {"lnew", "lkeep"})
    /\ LET me == cs[c]
           obj == <<c, me.dst>>
       IN  IF me.pc = "lkeep" /\ obj \in filelock
           THEN /\ Set(c, [me EXCEPT !.pc = "idle", !.err = "filelock"])
                /\ UNCHANGED <<fs, flock, filelock>>
           ELSE \E new \in {OpenCreate(fs, LockFileOf(me.dst))} :
                IF new.err
                THEN /\ Set(c, [me EXCEPT !.pc = "idle", !.err = "acquire"])
                     /\ UNCHANGED <<fs, flock, filelock>>
                ELSE /\ FlockFree(me.dst)
                     /\ fs' = new.fs
                     /\ flock' = [flock EXCEPT ![LockFileOf(me.dst)] = c]
                     /\ filelock' = IF me.pc = "lkeep" THEN filelock \cup {obj} ELSE filelock
                     /\ Set(c, [me EXCEPT !.pc = "idle", !.held = Append(me.held, me.dst)])
    /\ UNCHANGED <<blob, layerFile, links, mu, env, libvars, lastOk, escaped>>

\* Unlock, first half: filelock.Unlock() releases the file lock of this path
Released_all(f, c, x) == Unlocked(f, c)
Released_none(f, c, x) == f
Released(f, c, x) == [f EXCEPT ![LockFileOf(x)] = IF @ = c THEN Free ELSE @]

LibUnlock(c, x) ==
    /\ At(c, {"idle"})
    /\ x \in Range(cs[c].held)
    /\ flock' = Released(flock, c, x)
    /\ Set(c, [cs[c] EXCEPT !.pc = "lunlock", !.op = "unlock", !.dst = x, !.err = ""])
    /\ UNCHANGED <<fs, blob, layerFile, links, mu, env, libvars, lastOk, escaped, filelock>>

\* Unlock, second half: localMutex().Unlock()
LibUnlockMutex(c) ==
    /\ At(c, {"lunlock"})
    /\ mu' = [mu EXCEPT ![<<cs[c].proc, cs[c].dst>>] = Free]
    /\ Set(c, [cs[c] EXCEPT !.pc = "idle",
                            !.held = SelectSeq(cs[c].held, LAMBDA y : y # cs[c].dst)])
    /\ UNCHANGED <<fs, blob, layerFile, links, flock, env, libvars, lastOk, escaped, filelock>>

NextLock ==
    \/ \E c \in Callers, x \in TestPaths, keep \in BOOLEAN : LibLock(c, x, keep)
    \/ \E c \in Callers : LibFlock(c)
    \/ \E c \in Callers, x \in TestPaths : LibUnlock(c, x)
    \/ \E c \in Callers : LibUnlockMutex(c)

\* The two threads belong to one process or to two.
InitLock ==
    /\ fs = InitFs
    /\ blob = FixedBlobs
    /\ layerFile = [s \in Stores |-> [d \in Digests |-> "absent"]]
    /\ links = [s \in Stores |-> <<>>]
    /\ mu = [x \in Procs \X LockPaths |-> Free]
    /\ flock = [x \in LockFiles |-> Free]
    /\ cs \in {f \in [Callers -> {[Idle EXCEPT !.proc = p] : p \in Procs}] :
                  \A c \in Callers : f[c].proc \in ProcsOf(c)}
    /\ env = [callers |-> Callers, dsts |-> TestPaths, mans |-> {},
              stores |-> {"s1"},
              root |-> TRUE, faults |-> FALSE, history |-> FALSE]
    /\ lastOk = [s \in Stores |-> [d \in Dsts |-> <<>>]]
    /\ escaped = {}
    /\ filelock = {}
    /\ remote = NoRemote
    /\ RegStart
    /\ UrlStart

SpecLock == InitLock /\ [][NextLock]_vars

\* Two callers, threads of one process or two processes, pull single layers
\* into one destination and purge, on one cache.
Init ==
    /\ Start
    /\ blob = FixedBlobs
    /\ env = [callers |-> Callers, dsts |-> {"A"}, mans |-> {<<"d1">>, <<"d2">>},
              stores |-> {"s1"},
              root |-> TRUE, faults |-> FALSE, history |-> FALSE]

Spec == Init /\ [][Next]_vars

\* One caller pulls any manifest into two destinations and purges.
InitSeq ==
    /\ Start
    /\ blob = FixedBlobs
    /\ env = [callers |-> {"c1"}, dsts |-> {"A", "B"}, mans |-> Manifests \cup {<<>>},
              stores |-> {"s1"},
              root |-> TRUE, faults |-> FALSE, history |-> FALSE]

SpecSeq == InitSeq /\ [][Next]_vars

\* One caller pulls any manifest into one destination and purges; calls of
\* the system may fail and the pull may be interrupted.
InitFail ==
    /\ Start
    /\ blob = FixedBlobs
    /\ env = [callers |-> {"c1"}, dsts |-> {"A"}, mans |-> Manifests \cup {<<>>},
              stores |-> {"s1"},
              root |-> TRUE, faults |-> TRUE, history |-> TRUE]

SpecFail == InitFail /\ [][Next]_vars

\* One caller pulls a stack of two layers, drawn from the entries above,
\* into one destination, and purges.
InitUntar ==
    /\ Start
    /\ blob \in [Digests -> SeqsUpTo(UntarEntries, MaxEntries)]
    /\ env = [callers |-> {"c1"}, dsts |-> {"A"}, mans |-> {DigestOrder},
              stores |-> {"s1"},
              root |-> TRUE, faults |-> FALSE, history |-> FALSE]

SpecUntar == InitUntar /\ [][Next]_vars

\* One caller pulls a stack of two layers with whiteouts, drawn from the
\* entries of StackEntries, into one destination, and purges.
InitStack ==
    /\ Start
    /\ blob \in [Digests -> SeqsUpTo(StackEntries, MaxEntries)]
    /\ env = [callers |-> {"c1"}, dsts |-> {"A"}, mans |-> {DigestOrder},
              stores |-> {"s1"},
              root |-> TRUE, faults |-> FALSE, history |-> FALSE]

SpecStack == InitStack /\ [][Next]_vars

\* One caller pulls any manifest into one directory, named by its absolute
\* path or relative to the working directory, and purges.
InitRel ==
    /\ Start
    /\ blob = FixedBlobs
    /\ env = [callers |-> {"c1"}, dsts |-> {"A", "R"}, mans |-> Manifests,
              stores |-> {"s1"},
              root |-> TRUE, faults |-> FALSE, history |-> FALSE]

SpecRel == InitRel /\ [][Next]_vars

\* One caller that is not root pulls two such layers into one destination.
InitPerm ==
    /\ Start
    /\ blob \in [Digests -> SeqsUpTo(StackEntries, MaxEntries)]
    /\ env = [callers |-> {"c1"}, dsts |-> {"A"}, mans |-> {DigestOrder},
              stores |-> {"s1"},
              root |-> FALSE, faults |-> FALSE, history |-> FALSE]

SpecPerm == InitPerm /\ [][Next]_vars

\* One caller pulls a stack of two layers with hard links, drawn from
\* LinkEntries, into one destination, and purges.
InitLink ==
    /\ Start
    /\ blob \in [Digests -> SeqsUpTo(LinkEntries, MaxEntries)]
    /\ env = [callers |-> {"c1"}, dsts |-> {"A"}, mans |-> {DigestOrder},
              stores |-> {"s1"},
              root |-> TRUE, faults |-> FALSE, history |-> FALSE]

SpecLink == InitLink /\ [][Next]_vars

\* One caller pulls a stack of two layers, drawn from MissingEntries, into
\* one destination, and purges.
InitMissing ==
    /\ Start
    /\ blob \in [Digests -> SeqsUpTo(MissingEntries, MaxEntries)]
    /\ env = [callers |-> {"c1"}, dsts |-> {"A"}, mans |-> {DigestOrder},
              stores |-> {"s1"},
              root |-> TRUE, faults |-> FALSE, history |-> FALSE]

SpecMissing == InitMissing /\ [][Next]_vars

\* One caller pulls a stack of two layers, drawn from OpaqueEntries, into
\* one destination, and purges.
InitOpaque ==
    /\ Start
    /\ blob \in [Digests -> SeqsUpTo(OpaqueEntries, MaxEntries)]
    /\ env = [callers |-> {"c1"}, dsts |-> {"A"}, mans |-> {DigestOrder},
              stores |-> {"s1"},
              root |-> TRUE, faults |-> FALSE, history |-> FALSE]

SpecOpaque == InitOpaque /\ [][Next]_vars

\* One caller pulls a stack of two layers, drawn from ReplaceEntries, into
\* one destination, and purges.
InitReplace ==
    /\ Start
    /\ blob \in [Digests -> SeqsUpTo(ReplaceEntries, MaxEntries)]
    /\ env = [callers |-> {"c1"}, dsts |-> {"A"}, mans |-> {DigestOrder},
              stores |-> {"s1"},
              root |-> TRUE, faults |-> FALSE, history |-> FALSE]

SpecReplace == InitReplace /\ [][Next]_vars

\* One caller pulls a stack of two layers, drawn from RetypeEntries, into
\* one destination, and purges.
InitRetype ==
    /\ Start
    /\ blob \in [Digests -> SeqsUpTo(RetypeEntries, MaxEntries)]
    /\ env = [callers |-> {"c1"}, dsts |-> {"A"}, mans |-> {DigestOrder},
              stores |-> {"s1"},
              root |-> TRUE, faults |-> FALSE, history |-> FALSE]

SpecRetype == InitRetype /\ [][Next]_vars

\* Two callers, threads of one process or two processes, each with a cache
\* of its own or both with one, pull one layer into one destination, named
\* with a slash at its end.
InitDest ==
    /\ Start
    /\ blob = FixedBlobs
    /\ env = [callers |-> Callers, dsts |-> {"As"}, mans |-> {<<"d2">>},
              stores |-> Stores,
              root |-> TRUE, faults |-> FALSE, history |-> FALSE]

SpecDest == InitDest /\ [][Next]_vars

\* Two callers, threads of one process or two processes, pull one layer and
\* purge on one cache; the destination is a directory of its own or the
\* directory of the cache.
InitLive ==
    /\ Start
    /\ blob = FixedBlobs
    /\ env = [callers |-> Callers, dsts |-> {"A", "C"}, mans |-> {<<"d2">>},
              stores |-> {"s1"},
              root |-> TRUE, faults |-> FALSE, history |-> FALSE]

\* The call of c is inside a call of the filesystem (the removal or the
\* creation of the destination, the listing of it, the extraction of a
\* layer that has arrived).
InFilesystemStep(c) ==
    \/ At(c, {"force", "mkdir", "readdir"})
    \/ At(c, {"process"}) /\ cs[c].i \in 1..Len(cs[c].ch) /\ cs[c].ch[cs[c].i] # "run"

\* the steps of Extract and Purge between the calls of the filesystem, and
\* the end of a download
OwnSteps(c) ==
    \/ Return(c) \/ ExtractLayers(c) \/ ExtractDownload(c)
    \/ \E i \in 1..MaxLayers : WorkerDone(c, i)
    \/ ExtractChmod(c) \/ ExtractSaveLink(c)
    \/ PurgeReadLinks(c) \/ PurgeLink(c) \/ PurgeLayer(c)

\* Downloads and calls of the filesystem end, a call goes on when it can,
\* and a lock that is free again and again is given to each caller that
\* waits for it.
Fairness ==
    \A c \in Callers :
        /\ WF_vars(OwnSteps(c))
        /\ SF_vars(LockMutex(c) \/ LockFile(c))
        /\ []<>(~InFilesystemStep(c))

SpecLive == InitLive /\ [][Next]_vars /\ Fairness

\* ------------------------------------------------------------ properties
Pull(c, ret) == cs[c].pc = "ret" /\ cs[c].op = "pull" /\ cs[c].ret = ret
Purged(c) == cs[c].pc = "ret" /\ cs[c].op = "purge" /\ cs[c].ret = "ok"

\* the link file f of the cache s lists the digest d
Lists(s, f, d) ==
    f \in DOMAIN links[s] /\ Len(links[s][f]) >= 2 /\ d \in Range(Tail(links[s][f]))

\* the destination recorded in the link file f of the cache s exists
DstExists(s, f) ==
    Len(links[s][f]) >= 1 /\ links[s][f][1] \in Dsts /\ Exists(fs, DstPath(links[s][f][1]))

\* C1: Extract applies the layers in manifest order whatever the order in
\* which the downloads end: the j-th layer extracted is layer j.
C1_ManifestOrder ==
    \A c \in Callers : \A j \in 1..Len(cs[c].applied) : cs[c].applied[j] = j

\* both layers were extracted, and the download of the second had ended
\* while the first still ran
C1_Witness ==
    \E c \in Callers : cs[c].ooo /\ cs[c].applied = <<1, 2>>

\* a caller between taking the cache lock and releasing it
CacheSection(c) ==
    \/ At(c, {"lockd", "flockd", "readdir", "download", "process", "chmod", "savelink",
              "readlinks", "plink", "player"})
    \/ At(c, {"ret"}) /\ cs[c].held # <<>>

\* C2: at most one Extract or Purge is inside the locked section of a cache,
\* for threads of one process and for separate processes; from an Extract's
\* first download to its link file, and from a Purge's reading of the links
\* to its last deletion, the caller holds the cache lock.
C2_CacheLock ==
    /\ \A s \in Stores :
          Cardinality({c \in Callers : CacheSection(c) /\ cs[c].store = s}) <= 1
    /\ \A c \in Callers : CacheSection(c) =>
           flock[LockFileOf(cs[c].store)] = c /\ mu[<<cs[c].proc, cs[c].store>>] = c

\* one caller extracts while a caller of another process waits for the file
\* lock of the cache
C2_Witness ==
    \E c, d \in Callers :
        /\ At(c, {"process"}) /\ At(d, {"flockc"})
        /\ cs[c].proc # cs[d].proc

\* C3: after Purge returns without error every layer file that remains is
\* listed in a link file whose recorded destination exists on disk.
C3_Original ==
    \A c \in Callers : Purged(c) =>
        \A d \in Digests : layerFile[cs[c].store][d] # "absent" =>
            \E f \in DOMAIN links[cs[c].store] :
                Lists(cs[c].store, f, d) /\ DstExists(cs[c].store, f)

\* C3 as it holds: after Purge returns without error every layer file that
\* remains is listed in a link file whose recorded destination existed when
\* Purge examined it.
C3_LiveWhenExamined ==
    \A c \in Callers : Purged(c) =>
        \A d \in Digests : layerFile[cs[c].store][d] # "absent" =>
            \E f \in DOMAIN links[cs[c].store] :
                Lists(cs[c].store, f, d) /\ links[cs[c].store][f][1] \in cs[c].kept

\* a purge that kept a layer and removed another, listed by an orphan link
C3_Witness ==
    \E c \in Callers :
        /\ Purged(c) /\ cs[c].kept # {}
        /\ \E d \in Digests : layerFile[cs[c].store][d] # "absent"
        /\ \E d \in cs[c].dead : layerFile[cs[c].store][d] = "absent"

\* C4: Purge never deletes a layer file whose digest is listed in a link
\* file whose destination exists, also when a link file of a deleted
\* destination lists the same digest.
C4_SharedLayerSurvives ==
    [][\A s \in Stores, d \in Digests :
          (layerFile[s][d] # "absent" /\ layerFile'[s][d] = "absent") =>
              ~ \E f \in DOMAIN links[s] : Lists(s, f, d) /\ DstExists(s, f)]_vars

\* a purge has ended that removed the link of a deleted destination, and a
\* layer listed there and by a destination that exists is still in the cache
C4_Witness ==
    \E c \in Callers :
        /\ Purged(c)
        /\ \E d \in cs[c].dead \cap cs[c].live : layerFile[cs[c].store][d] # "absent"

\* C5: after Extract returns without error the link file of the destination
\* holds the destination and then the digests of the manifest, in order.
C5_LinkWritten ==
    \A c \in Callers : Pull(c, "ok") =>
        /\ LinkPath(cs[c].dst) \in DOMAIN links[cs[c].store]
        /\ links[cs[c].store][LinkPath(cs[c].dst)] = <<cs[c].dst>> \o cs[c].man

\* an Extract of two different layers has returned without error
C5_Witness ==
    \E c \in Callers :
        Pull(c, "ok") /\ Len(cs[c].man) = 2 /\ cs[c].man[1] # cs[c].man[2]

\* C6: an Extract that returns an error has neither created nor modified a
\* link file.
C6_NoLinkOnError ==
    \A c \in Callers : Pull(c, "err") => ~cs[c].wrote

\* C7: a link file exists if and only if an extraction to its destination
\* succeeded, and it lists the digests of that extraction.
C7_LinkIffExtracted ==
    \A s \in Stores, dst \in Dsts :
        /\ (LinkPath(dst) \in DOMAIN links[s]) <=> (lastOk[s][dst] # <<>>)
        /\ LinkPath(dst) \in DOMAIN links[s] =>
               links[s][LinkPath(dst)] = <<dst>> \o lastOk[s][dst]

\* C8: a layer file that downloadLayer found present and delivered at once
\* holds the complete blob of its digest when the layer is extracted.
C8_HitIsComplete ==
    \A c \in Callers :
        (At(c, {"process"}) /\ cs[c].i <= Len(cs[c].ch) /\ cs[c].ch[cs[c].i] = "hit")
            => layerFile[cs[c].store][cs[c].man[cs[c].i]] = "complete"

\* C9: every path the extractor creates, writes, links or removes is inside
\* the destination.
C9_NothingEscapes == escaped = {}

\* C10: an entry refused for a traversal in its name has had no effect on
\* the filesystem.
C10_RejectedHasNoEffect ==
    \A c \in Callers : (Pull(c, "err") /\ cs[c].err = "unsafe") => ~cs[c].rej

\* what one entry of a layer creates in the destination, and what a
\* whiteout entry names there
CreatedBy(dst, e) == Join(dst, e.name)
NamedBy(dst, e) ==
    CleanOnto(Join(dst, Dir(e.name)), Split(SubSeq(Base(e.name), 5, Len(Base(e.name)))))
Creates(e) == ~isWhiteoutPath(e.name)
SimpleWhiteout(e) == isWhiteoutPath(e.name) /\ ~HasSuffix(e.name, OpqName)

\* all layers of the manifest have been extracted by the pull of c
Extracted(c) ==
    /\ cs[c].op = "pull" /\ cs[c].applied = <<1, 2>> /\ cs[c].man = DigestOrder
    /\ cs[c].pc \in {"chmod", "savelink"} \/ Pull(c, "ok")

\* C11: once the layers are extracted in order, what the first layer created
\* at d/X and the second names by a .wh.X entry in d is absent from the
\* destination, unless the second layer creates it (or something below it)
\* again.
C11_WhiteoutRemoves ==
    \A c \in Callers : Extracted(c) =>
        \A e1 \in Range(blob["d1"]), e2 \in Range(blob["d2"]) :
            LET dst == DstPath(cs[c].dst)
                x == CreatedBy(dst, e1)
            IN  ( /\ Creates(e1) /\ SimpleWhiteout(e2) /\ NamedBy(dst, e2) = x
                  /\ ~ \E e3 \in Range(blob["d2"]) :
                          Creates(e3) /\ IsPrefix(x, CreatedBy(dst, e3)) )
                => ~Lstat(fs, x).ok

\* the entries the destination of the caller holds
Entries(c) == Children(fs, Stat(fs, DstPath(cs[c].dst)).path)
Refused(c) == Pull(c, "err") /\ cs[c].err = "notempty"

DestSection(c) ==
    /\ cs[c].op = "pull"
    /\ \/ At(c, {"readdir", "download", "process", "chmod", "savelink"})
       \/ At(c, {"ret"}) /\ cs[c].dst \in Range(cs[c].held)

\* C13: no two Extract calls with the same destination argument are inside
\* their destination-locked section at the same time, whatever their caches
\* and processes.
C13_DestinationLock ==
    \A c, o \in Callers :
        (c # o /\ DestSection(c) /\ DestSection(o)) => cs[c].dst # cs[o].dst

\* the thread has locked the path and not yet unlocked it
Holds(c, x) == cs[c].op \in {"lock", "unlock"} /\ x \in Range(cs[c].held)

\* C14: of two threads of one process that call Lock for one path, each on
\* an object of its own, never both hold the lock; while one holds it the
\* mutex of the path is its own, so that the Lock of the other waits for
\* the Unlock; and each Lock returns without an error, holding the lock.
C14_ThreadsSerialize ==
    [][\A c \in Callers, x \in TestPaths :
          /\ Holds(c, x) => mu[<<cs[c].proc, x>>] = c
          /\ \A o \in Callers \ {c} :
                cs[o].proc = cs[c].proc => ~(Holds(c, x) /\ Holds(o, x))
          /\ (At(c, {"lnew"}) /\ cs[c].dst = x /\ At(c, {"idle"})')
                => cs'[c].err = "" /\ Holds(c, x)']_vars

\* a thread has locked and unlocked the path, and the other thread of its
\* process, which had to wait for that, holds the lock now
C14_Witness ==
    \E c \in Callers, o \in Callers, x \in TestPaths :
        /\ c # o /\ cs[c].proc = cs[o].proc /\ filelock = {}
        /\ At(c, {"idle"}) /\ cs[c].op = "unlock" /\ cs[c].dst = x /\ cs[c].err = ""
        /\ At(o, {"idle"}) /\ cs[o].op = "lock" /\ cs[o].err = "" /\ Holds(o, x)
        /\ mu[<<cs[o].proc, x>>] = o /\ flock[LockFileOf(x)] = o

\* C15: locks on different paths are independent.  A thread that holds one
\* path can start Lock for another path whose mutex is free; a step of a Lock
\* or an Unlock for one path changes neither the mutex nor the file lock of
\* the other path, nor whether the thread holds it, so that the paths can be
\* released in any order; and each Lock on an object of its own and each
\* Unlock returns without an error.
C15_PathsIndependent ==
    /\ [](\A c \in Callers, x \in TestPaths, y \in TestPaths :
            (x # y /\ Holds(c, x) /\ At(c, {"idle"}) /\ MutexFree(cs[c].proc, y))
                => ENABLED LibLock(c, y, FALSE))
    /\ [][\A c \in Callers, x \in TestPaths :
            (cs'[c] # cs[c] /\ cs'[c].dst = x) =>
                /\ \A y \in TestPaths \ {x} :
                      /\ mu'[<<cs[c].proc, y>>] = mu[<<cs[c].proc, y>>]
                      /\ flock'[LockFileOf(y)] = flock[LockFileOf(y)]
                      /\ Holds(c, y)' <=> Holds(c, y)
                /\ (At(c, {"lnew", "lunlock"}) /\ At(c, {"idle"})') => cs'[c].err = ""
                /\ (At(c, {"lnew"}) /\ At(c, {"idle"})') => Holds(c, x)'
                /\ (At(c, {"lunlock"}) /\ At(c, {"idle"})') => ~Holds(c, x)']_vars

\* TestLockSimple: a thread has locked the first path and then the second,
\* and is inside Unlock for the first while it holds the second
C15_Witness ==
    \E c \in Callers :
        /\ cs[c].held = <<"A", "B">> /\ At(c, {"lunlock"}) /\ cs[c].dst = "A"
        /\ flock[LockFileOf("A")] = Free /\ flock[LockFileOf("B")] = c
        /\ filelock = {}

\* a layer that declares a read-only directory and then a file inside it
ReadOnlyLayer ==
    << Entry(<<"a", "/">>, "dir", 500, <<>>, ""),
       Entry(<<"a", "/", "f">>, "reg", 644, <<>>, "f1") >>

\* the directories this pull has recorded and found missing at its start
Declared(c) == DOMAIN cs[c].dirmodes \ cs[c].pre

IsAbs(str) == str # <<>> /\ str[1] = "/"

\* C18: when Extract has returned without error, the first line of the
\* link file of its destination is the absolute path of the destination
\* directory, whatever form the destination argument had, and the further
\* lines are the digests of the manifest in order.
C18_LinkHeaderAbsolute ==
    \A c \in Callers : Pull(c, "ok") =>
        LET l == links[cs[c].store][LinkPath(cs[c].dst)] IN
        /\ IsAbs(DstStr(l[1]))
        /\ DstPath(l[1]) = DstPath(cs[c].dst)
        /\ Tail(l) = cs[c].man

\* the entries of the list that are for the bound platform
ForPlatform(r) ==
    {i \in 1..Len(r.lst.manifests) :
        /\ r.lst.manifests[i].platform.architecture = r.platform.architecture
        /\ r.lst.manifests[i].platform.os = r.platform.os}
Called == remote'.calls # remote.calls
Min(S) == CHOOSE i \in S : \A j \in S : i <= j

\* C19: with a platform bound, Digest returns the digest of the first entry
\* of the manifest list whose architecture and os both equal the bound
\* platform, and no error; when the list has no such entry it returns the
\* empty digest and the error "no manifest found for <url> <os>/<arch>"; when
\* there is no manifest list it returns the error "no multi-platform support";
\* a digest it returns is never that of an entry for another platform only.
C19_DigestOfPlatform ==
    [][(Called /\ remote.bound) =>
          /\ (IsList(remote.lst) /\ ForPlatform(remote) # {}) =>
                /\ remote'.err = <<>>
                /\ remote'.digest = remote.lst.manifests[Min(ForPlatform(remote))].digest
          /\ (IsList(remote.lst) /\ ForPlatform(remote) = {}) =>
                /\ remote'.digest = ""
                /\ remote'.err = <<"no manifest found for ", Url, " ", remote.platform.os,
                                   "/", remote.platform.architecture>>
          /\ remote.lst.kind = "none" =>
                /\ remote'.digest = ""
                /\ remote'.err = <<"no multi-platform support: ", Url>>
          /\ remote'.digest # "" =>
                \E i \in ForPlatform(remote) :
                    remote'.digest = remote.lst.manifests[i].digest]_vars

\* Digest has answered for a bound platform that is the second entry of the
\* list, the first entry being for another os of the same architecture
C19_Witness ==
    /\ remote.calls > 0 /\ remote.bound /\ IsList(remote.lst)
    /\ Len(remote.lst.manifests) = 2 /\ ForPlatform(remote) = {2}
    /\ remote.lst.manifests[1].platform.architecture = remote.platform.architecture
    /\ remote.lst.manifests[1].digest # remote.lst.manifests[2].digest
    /\ remote.err = <<>> /\ remote.digest = remote.lst.manifests[2].digest

\* C20: with no platform bound, Digest returns the digest of the first entry
\* of the manifest list, and no error, whenever the registry serves a list
\* that is not empty.
C20_DigestOfFirst ==
    [][(Called /\ ~remote.bound /\ IsList(remote.lst) /\ Len(remote.lst.manifests) # 0) =>
          remote'.err = <<>> /\ remote'.digest = remote.lst.manifests[1].digest]_vars

\* Digest has answered with the first of two entries with different digests
C20_Witness ==
    /\ remote.calls > 0 /\ ~remote.bound /\ IsList(remote.lst)
    /\ Len(remote.lst.manifests) = 2
    /\ remote.lst.manifests[1].digest # remote.lst.manifests[2].digest
    /\ remote.head # "" /\ remote.head # remote.lst.manifests[1].digest
    /\ remote.err = <<>> /\ remote.digest = remote.lst.manifests[1].digest
\* the hard-link entry that ends the last layer, if there is one
LastLink == blob["d2"] # <<>> /\ Last(blob["d2"]).typ = "link"

\* where the claim puts the target of a hard-link entry e
SiblingOf(dst, e) == Join(Join(dst, Dir(e.name)), e.linkname)
BelowDst(dst, e) == Join(dst, e.linkname)

\* C21: a hard-link entry at path P with link name L is a link to dir(P)/L
\* in the destination when L begins with a dot or contains no slash, and to
\* <dest>/L otherwise: when the last layer has been extracted, the file at
\* the path of the link that ends it is the file at that place.
C21_HardLinkTarget ==
    [][\A c \in Callers :
         (~Extracted(c) /\ Extracted(c)' /\ LastLink) =>
            LET e == Last(blob["d2"])
                dst == DstPath(cs[c].dst)
                old == IF e.linkname[1] = "." \/ ~ContainsSlash(e.linkname)
                       THEN SiblingOf(dst, e) ELSE BelowDst(dst, e)
            IN  /\ Lstat(fs', Join(dst, e.name)).ok
                /\ Lstat(fs', old).ok
                /\ Lstat(fs', Join(dst, e.name)).node = Lstat(fs', old).node]_vars

\* the entry b/c with the link name a has been linked to b/a, which differs
\* from a at the top of the destination
C21_Witness ==
    \E c \in Callers :
        /\ Extracted(c) /\ LastLink
        /\ Last(blob["d2"]).name = <<"b", "/", "c">>
        /\ LET dst == DstPath(cs[c].dst) IN
              /\ Lstat(fs, Join(dst, <<"a">>)).ok
              /\ Lstat(fs, Join(dst, <<"a">>)).node.c = "top"
              /\ Lstat(fs, Join(dst, <<"b", "/", "c">>)).ok
              /\ Lstat(fs, Join(dst, <<"b", "/", "c">>)).node.c = "sib"

\* what a whiteout entry is about: the directory of an opaque whiteout, the
\* sibling a simple one names
WhiteoutTarget(dst, e) ==
    IF HasSuffix(e.name, OpqName) THEN Join(dst, Dir(e.name)) ELSE NamedBy(dst, e)

\* the pull of c extracts, in this step, a layer that is one whiteout entry
\* whose target is not in the destination, from a complete layer file
AppliesMissing(c) ==
    /\ At(c, {"process"}) /\ cs[c].i \in 1..Len(cs[c].man)
    /\ cs'[c].applied # cs[c].applied \/ cs'[c].pc = "ret"
    /\ layerFile[cs[c].store][cs[c].man[cs[c].i]] = "complete"
    /\ LET layer == blob[cs[c].man[cs[c].i]] IN
          /\ Len(layer) = 1 /\ isWhiteoutPath(layer[1].name)
          /\ ~Lstat(fs, WhiteoutTarget(DstPath(cs[c].dst), layer[1])).ok

\* C22: applying a whiteout, simple or opaque, whose target does not exist
\* in the destination changes nothing there and raises no error, and the
\* extraction goes on.
C22_MissingTargetNoOp ==
    [][\A c \in Callers :
         AppliesMissing(c) =>
            /\ fs' = fs
            /\ cs'[c].ret # "err"
            /\ cs'[c].applied = Append(cs[c].applied, cs[c].i)]_vars

\* the providers that are registered now and support the url, and the step
\* of a lookup
Supporting == {p \in {registry[n] : n \in DOMAIN registry} : p.supports}
Looked == found'.calls # found.calls

\* C23: after any sequence of RegisterProvider calls, LookupProvider returns
\* the provider registered first among those that support the url, and an
\* error when no registered provider supports it.
C23_FirstRegisteredSupporting ==
    [][Looked =>
          IF Supporting = {}
          THEN found'.err /\ found'.id = 0
          ELSE ~found'.err /\ found'.id = Min({p.id : p \in Supporting})]_vars

\* C24: for every input that is not empty and on which Parse succeeds with
\* the URL u, Parse of u.String() succeeds too and returns a URL equal to u
\* in all five fields.
C24_RoundTrip ==
    (parsed.calls = 2 /\ parsed.input # <<>> /\ ~parsed.err) =>
        ~parsed.againerr /\ parsed.again = parsed.url

\* C25: whenever Parse returns an error, the URL it returns is the zero URL,
\* every field empty, which formats as "<empty>".
C25_ErrorGivesZeroURL ==
    (parsed.calls > 0 /\ parsed.err) =>
        /\ parsed.url.name = <<>> /\ parsed.url.host = <<>>
        /\ parsed.url.repository = <<>> /\ parsed.url.tag = <<>>
        /\ parsed.url.digest = <<>>
        /\ URLString(parsed.url) = <<"<empty>">>

\* Parse has refused a reference with a host, a tag and a digest but too
\* many segments
C25_Witness ==
    /\ parsed.calls > 0 /\ parsed.err
    /\ parsed.input = <<".", "/", "/", "/", "@">>
    /\ parsed.url = ZeroURL

\* C26: whenever Parse succeeds, name, host, repository and tag are not
\* empty: host, repository and tag are the defaults when the input omits
\* them, and the first segment is the host only when a slash follows it and
\* it contains a dot or a colon.
C26_Defaults ==
    (parsed.calls > 0 /\ ~parsed.err) =>
        LET t == Trim(parsed.input)
            ref == IF Contains(t, "@") THEN bisect(t, "@")[1] ELSE t
            first == Split(ref)[1]
            asHost == Contains(ref, "/") /\ ContainsAny(first, {".", ":"})
            segments == IF asHost THEN Tail(Split(ref)) ELSE Split(ref)
            u == parsed.url
        IN  /\ u.name # <<>> /\ u.host # <<>> /\ u.repository # <<>> /\ u.tag # <<>>
            /\ IF asHost THEN u.host = first ELSE u.host = DefaultHost
            /\ (Len(segments) = 1 \/ segments[1] = <<>>) => u.repository = DefaultRepository
            /\ (~Contains(segments[Len(segments)], ":")
                   \/ bisect(segments[Len(segments)], ":")[2] = <<>>) => u.tag = DefaultTag

\* Parse has accepted a reference that is a name alone and filled in the
\* three defaults
C26_Witness ==
    /\ parsed.calls > 0 /\ ~parsed.err
    /\ parsed.input = <<"a">>
    /\ parsed.url = [name |-> <<"a">>, host |-> DefaultHost,
                     repository |-> DefaultRepository, tag |-> DefaultTag,
                     digest |-> <<>>]

\* the pull of c is about to handle --force, and its destination is a
\* directory that is not empty
ForcesOnto(c) ==
    /\ At(c, {"force"})
    /\ IsDirAt(fs, DstPath(cs[c].dst))
    /\ Children(fs, DstPath(cs[c].dst)) # {}
Forced(c) == ForcesOnto(c) /\ cs'[c] # cs[c]

\* C27: a pull with --force onto an existing directory that is not empty
\* overwrites it, whatever the destination path is: what the directory held
\* is removed and the pull goes on to create and fill the destination.
C27_ForceOverwrites ==
    [][\A c \in Callers :
         Forced(c) =>
            /\ ~Exists(fs', DstPath(cs[c].dst))
            /\ cs'[c].pc = "mkdir"]_vars

Returns(c) == At(c, {"ret"}) /\ cs[c].op = "pull" /\ cs'[c].pc = "idle"

\* C29: when Extract returns, with or without an error, and releases the
\* cache lock, no download worker it started is still running and writing
\* to a layer file.
C29_NoWorkerOutlivesExtract ==
    [][\A c \in Callers : Returns(c) => Running(cs[c]) = {}]_vars

\* the step in which the pull of c calls downloadLayer for the next layer
\* of its manifest and gets a channel, and whether an earlier layer of the
\* manifest has the same digest
Downloads(c) == At(c, {"download"}) /\ Len(cs'[c].ch) = Len(cs[c].ch) + 1
Repeated(me) == \E j \in 1..(me.i - 1) : me.man[j] = me.man[me.i]

\* C30: within one pull a download worker is started for a layer exactly
\* when its layer file is missing from the cache and no earlier layer of
\* the manifest has the same digest: one worker for each distinct missing
\* digest, none for a digest whose layer file exists.
C30_OneWorkerPerMissingDigest ==
    [][\A c \in Callers :
         Downloads(c) =>
            ( Last(cs'[c].ch) = "run"
              <=> ( /\ layerFile[cs[c].store][cs[c].man[cs[c].i]] = "absent"
                    /\ ~Repeated(cs[c]) ) )]_vars

\* a pull of a manifest that lists one digest twice has started a worker for
\* the first of the two layers and none for the second
C30_Witness ==
    \E c \in Callers :
        /\ cs[c].op = "pull" /\ Len(cs[c].man) = 2 /\ cs[c].man[1] = cs[c].man[2]
        /\ Len(cs[c].ch) = 2 /\ cs[c].ch[1] = "run" /\ cs[c].ch[2] = "hit"

\* C31: Extract calls downloadLayer for every layer of the manifest before it
\* extracts the first layer: whenever a layer is awaited or extracted, each
\* layer of the manifest has its channel.  When a downloadLayer call fails,
\* Extract returns the error at once: that step leaves the filesystem as it
\* is, and the pull has extracted no layer.
C31_DownloadsBeforeExtraction ==
    [][\A c \in Callers :
         /\ (At(c, {"process"}) /\ cs'[c] # cs[c]) => Len(cs[c].ch) = Len(cs[c].man)
         /\ cs'[c].applied # <<>> => Len(cs'[c].ch) = Len(cs'[c].man)
         /\ (At(c, {"download"}) /\ cs'[c].err = "writing") =>
                /\ cs'[c].pc = "ret" /\ cs'[c].ret = "err"
                /\ cs'[c].applied = <<>> /\ cs'[c].digests = <<>>
                /\ fs' = fs
         /\ (Pull(c, "err") /\ cs[c].err = "writing") =>
                cs[c].applied = <<>> /\ cs'[c].applied = <<>>]_vars

\* the second downloadLayer call of a pull has failed after the first had
\* started a worker, and no layer was extracted
C31_Witness ==
    \E c \in Callers :
        /\ Pull(c, "err") /\ cs[c].err = "writing"
        /\ Len(cs[c].man) = 2 /\ Len(cs[c].ch) = 1
        /\ cs[c].applied = <<>>

\* C32: every Extract and Purge that is called takes its locks and returns
\* in the end, whatever the other callers do and whatever the destination
\* is, when every step that can be taken is taken and the locks are handed
\* over fairly.
C32_EveryCallReturns ==
    \A c \in Callers : (cs[c].pc # "idle") ~> (cs[c].pc = "idle")

\* the thread is inside Lock for the path, after local.Lock(); it holds the
\* file lock of the path; it is inside Unlock for the path, after
\* filelock.Unlock()
Opening(c, x) == At(c, {"lnew", "lkeep"}) /\ cs[c].dst = x
HasFile(c, x) == flock[LockFileOf(x)] = c
Releasing(c, x) == At(c, {"lunlock"}) /\ cs[c].dst = x

LockFailed(c, x) ==
    At(c, {"idle"}) /\ cs[c].op = "lock" /\ cs[c].dst = x /\ cs[c].err # ""

\* C34: a Lock that returns an error does not leave the mutex of its
\* process for the path locked, so that it cannot block the next Lock of
\* another thread for the path.
C34_FailedLockFreesMutex ==
    \A c \in Callers, x \in TestPaths :
        LockFailed(c, x) => mu[<<cs[c].proc, x>>] # c

\* C35: an InterProcessLock is reusable: a Lock on an object that the thread
\* keeps, also one it has locked and unlocked before, returns without an
\* error and holds the lock.
C35_Reusable ==
    [][\A c \in Callers :
         (At(c, {"lkeep"}) /\ At(c, {"idle"})') =>
            cs'[c].err = "" /\ Holds(c, cs[c].dst)']_vars

\* the step in which the pull of c extracts the next layer of its manifest
\* from a complete layer file, and that layer
LayerStep(c) ==
    /\ At(c, {"process"}) /\ cs[c].i \in 1..Len(cs[c].man)
    /\ cs'[c].applied # cs[c].applied \/ cs'[c].pc = "ret"
    /\ layerFile[cs[c].store][cs[c].man[cs[c].i]] = "complete"
LayerOf(c) == blob[cs[c].man[cs[c].i]]

\* a whiteout of the layer is about the path q: a simple one names q or
\* something above it, an opaque one lies in a directory above q
OwnWhiteout(dst, layer, q) ==
    \E w \in Range(layer) :
        /\ isWhiteoutPath(w.name)
        /\ IF HasSuffix(w.name, OpqName)
           THEN IsPrefix(Join(dst, Dir(w.name)), q) /\ Join(dst, Dir(w.name)) # q
           ELSE IsPrefix(NamedBy(dst, w), q)

\* the directory the entry is to lie in is there before the layer is
\* extracted, or the layer declares it
HasParent(dst, layer, e) ==
    \/ IsDirAt(fs, Front(CreatedBy(dst, e)))
    \/ \E d \in Range(layer) : d.typ = "dir" /\ CreatedBy(dst, d) = Front(CreatedBy(dst, e))

\* C36: the whiteouts of a layer remove nothing that the layer itself adds,
\* in whatever order its entries are: a layer with a whiteout that is about
\* a file or directory of its own is extracted without an error, and that
\* file or directory is in the destination afterwards.
C36_OwnContentSurvives ==
    [][\A c \in Callers :
         LayerStep(c) =>
            \A e \in Range(LayerOf(c)) :
               LET dst == DstPath(cs[c].dst) IN
               ( /\ Creates(e) /\ e.typ \in {"dir", "reg"}
                 /\ HasParent(dst, LayerOf(c), e)
                 /\ OwnWhiteout(dst, LayerOf(c), CreatedBy(dst, e)) )
               => /\ cs'[c].applied = Append(cs[c].applied, cs[c].i)
                  /\ Lstat(fs', CreatedBy(dst, e)).ok]_vars

\* the directories in which the layer has an opaque whiteout
OpaqueDirs(dst, layer) ==
    {Join(dst, Dir(w.name)) : w \in {e \in Range(layer) : HasSuffix(e.name, OpqName)}}

\* the layer creates q, or something below q
Recreates(dst, layer, q) ==
    \E e \in Range(layer) : Creates(e) /\ IsPrefix(q, CreatedBy(dst, e))

\* D lies below another directory the layer has an opaque whiteout in
Cleared37(dst, layer, D) ==
    \E D2 \in OpaqueDirs(dst, layer) : D2 # D /\ IsPrefix(D2, D)

LastRegular(dst, layer, k, q) ==
    /\ layer[k].typ = "reg" /\ Creates(layer[k]) /\ CreatedBy(dst, layer[k]) = q
    /\ \A j \in DOMAIN layer :
          CreatedBy(dst, layer[j]) = q =>
             /\ layer[j].typ \notin {"sym", "link"}
             /\ (j > k => layer[j].typ # "reg")

\* C38: when a layer has been extracted, (1) a path whose last regular-file
\* entry in the layer is not followed by a link of that path is a regular
\* file with the content and the mode of that entry, whatever non-directory
\* was there before, and (2) a regular file of the destination that the
\* layer neither creates nor whites out is as it was.  Layer by layer, this
\* makes every regular file of the extracted stack the one of the last
\* layer that has it.
C38_LastRegularFileWins ==
    [][\A c \in Callers :
         (LayerStep(c) /\ cs'[c].applied # cs[c].applied) =>
            LET dst == DstPath(cs[c].dst)
                layer == LayerOf(c)
            IN  /\ \A k \in DOMAIN layer :
                      LET q == CreatedBy(dst, layer[k]) IN
                      ( /\ LastRegular(dst, layer, k, q)
                        /\ ~IsDirAt(fs, q) )
                      => /\ Lstat(fs', q).ok
                         /\ Lstat(fs', q).node = FileNode(layer[k].mode, layer[k].data)
                /\ \A q \in DOMAIN fs :
                      ( /\ Inside(dst, q) /\ fs[q].k = "file"
                        /\ ~OwnWhiteout(dst, layer, q)
                        /\ \A e \in Range(layer) : Creates(e) => CreatedBy(dst, e) # q )
                      => q \in DOMAIN fs' /\ fs'[q] = fs[q]]_vars

\* the first layer declares the directory P, the second whites P out and
\* creates a regular file or a link there
Retyped(dst, first, second, P) ==
    /\ \E e \in Range(first) : e.typ = "dir" /\ CreatedBy(dst, e) = P
    /\ \E w \in Range(second) : SimpleWhiteout(w) /\ NamedBy(dst, w) = P
    /\ \E e \in Range(second) :
          Creates(e) /\ e.typ \in {"reg", "sym", "link"} /\ CreatedBy(dst, e) = P

\* C39: when both layers of such an image have been extracted and P is no
\* directory, setting the directory modes does not fail: the pull goes on
\* to write the link file, and P is left as it is.
C39_RemovedDirectoryModeSkipped ==
    [][\A c \in Callers :
         ( /\ At(c, {"chmod"}) /\ cs'[c] # cs[c]
           /\ cs[c].man = DigestOrder /\ cs[c].applied = <<1, 2>> ) =>
            \A P \in DOMAIN cs[c].dirmodes :
               ( /\ Retyped(DstPath(cs[c].dst), blob["d1"], blob["d2"], P)
                 /\ Lstat(fs, P).ok /\ Lstat(fs, P).node.k # "dir" )
               => /\ cs'[c].pc = "savelink"
                  /\ Lstat(fs', P).ok /\ Lstat(fs', P).node = Lstat(fs, P).node]_vars

\* the first n entries the three walks over a layer come to, handled one
\* after the other: entry k is the one of walk (k-1) \div Len + 1
RECURSIVE FirstUnits(_, _, _, _, _)
FirstUnits(st, dst, entries, k, n) ==
    IF k > n \/ ~Ok(st) THEN st
    ELSE FirstUnits(Handle(((k - 1) \div Len(entries)) + 1, st, dst,
                           entries[((k - 1) % Len(entries)) + 1]),
                    dst, entries, k + 1, n)

\* the extraction of the layer of digest d by c, begun in this state, when
\* the context is seen cancelled after n entries
Begun(c, n) ==
    [fs |-> fs, dirmodes |-> cs[c].dirmodes, err |-> "", hit |-> {}, left |-> n, rej |-> FALSE]

\* the pull of c is about to extract a layer whose file is complete
AboutToExtract(c) ==
    /\ At(c, {"process"}) /\ cs[c].i \in 1..Len(cs[c].man) /\ cs[c].i <= Len(cs[c].ch)
    /\ cs[c].ch[cs[c].i] \notin {"run", "err"}
    /\ layerFile[cs[c].store][cs[c].man[cs[c].i]] = "complete"

\* C40 (the walker): whenever a layer is about to be extracted and the
\* context is cancelled after n of the entries its walks would handle,
\* untarLayer fails, with "interrupted" unless one of the n entries failed,
\* and has applied these n entries and no other.
C40_WalkStopsAtCancel ==
    \A c \in Callers :
        AboutToExtract(c) =>
           LET dst == DstPath(cs[c].dst)
               entries == LayerOf(c)
           IN  \A n \in 0..(3 * Len(entries) - 1) :
                  LET r == untarLayer(Begun(c, n), dst, [entries |-> entries, complete |-> TRUE])
                      f == FirstUnits(Begun(c, NoCancel), dst, entries, 1, n)
                  IN  /\ r.err # ""
                      /\ Ok(f) => r.err = "interrupted"
                      /\ r.fs = f.fs /\ r.dirmodes = f.dirmodes

\* C40 (Extract): the step in which a walk is interrupted ends Extract with
\* an error, and counts the layer as not extracted; until that pull has
\* returned, no further layer is extracted and no link file is written.
C40_CancelEndsExtract ==
    [][\A c \in Callers :
         /\ (cs[c].err # "interrupted" /\ cs'[c].err = "interrupted") =>
               /\ At(c, {"process"})
               /\ cs'[c].pc = "ret" /\ cs'[c].ret = "err"
               /\ cs'[c].applied = cs[c].applied /\ cs'[c].digests = cs[c].digests
               /\ links' = links
         /\ (cs[c].err = "interrupted" /\ cs'[c] # cs[c]) =>
               /\ Pull(c, "err") /\ ~cs[c].wrote
               /\ cs'[c].pc = "idle" \/ ( /\ cs'[c].pc = "ret"
                                          /\ cs'[c].applied = cs[c].applied
                                          /\ cs'[c].wrote = cs[c].wrote )
               /\ links' = links]_vars

====
